---- MODULE Spec2Model ----
(***************************************************************************)
(* Model of the ai-news-agent core: the task scheduler                     *)
(* (src/services/scheduler.py), the per-source circuit breaker             *)
(* (src/fetchers/base.py), the token-bucket rate limiter                   *)
(* (src/services/rate_limiter.py) and the ingestion pipeline               *)
(* (src/api/routes.py, src/services/deduplication.py,                      *)
(* src/repositories/articles.py).                                          *)
(*                                                                         *)
(* Each subsystem has its own specification (SpecSched, SpecBreaker,       *)
(* SpecLimiter, SpecIngest); the variables of the other subsystems are     *)
(* left unchanged by its actions.                                          *)
(***************************************************************************)
EXTENDS Integers, Sequences, FiniteSets, TLC

\* Python's None for time-valued and id-valued fields.
None == -1

(***************************************************************************)
(*                                 STATE                                   *)
(***************************************************************************)

\* The task scheduler.
VARIABLES
    now,          \* datetime.now(UTC), in 10-second units
    last_run,     \* ScheduledTask.last_run, per task (None before the first run)
    next_run,     \* ScheduledTask.next_run, per task
    run_count,    \* ScheduledTask.run_count, per task
    error_count,  \* ScheduledTask.error_count, per task
    is_running,   \* ScheduledTask.is_running, per task
    exec,         \* per task and caller: position of that caller's execute() coroutine
    start_time,   \* per task and caller: the local start_time of execute()
    bg_failed,    \* fetch_articles_background logged "Background fetch failed" in its last run
    loop_pc,      \* position of _scheduler_loop: "poll", "gather" or "sleep"
    loop_time     \* the time held by _scheduler_loop at its await: current_time of the
                  \* poll while it awaits gather, the deadline of asyncio.sleep while it sleeps

schedVars == <<now, last_run, next_run, run_count, error_count, is_running,
               exec, start_time, bg_failed, loop_pc, loop_time>>

\* The circuit breaker of each fetcher.
VARIABLES
    utcnow,                     \* datetime.utcnow(), in minutes
    cb_error_count,             \* BaseFetcher._error_count, per source
    circuit_breaker_open_until, \* BaseFetcher._circuit_breaker_open_until, per source
    fetch_pc,                   \* per source: "idle", or "fetching" while fetch_with_result awaits fetch()
    opened_at,                  \* per source: when the breaker last went from closed to open
    direct_fetch                \* the last fetch made by an ingestion run: source and outcome

breakerVars == <<utcnow, cb_error_count, circuit_breaker_open_until, fetch_pc,
                 opened_at, direct_fetch>>

\* The rate limiter.
VARIABLES
    time,         \* time.time(), in 10-second units
    tokens,       \* RateLimiter.tokens
    last_update,  \* RateLimiter.last_update
    waiter,       \* per wait_for_tokens caller: position, requested tokens, end of its sleep
    granted_at    \* number of tokens granted at each instant

limiterVars == <<time, tokens, last_update, waiter, granted_at>>

\* The article store.
VARIABLES
    articles,     \* the rows of the articles table
    persisted,    \* the last ingestion run: what it handed to batch_create_articles, and how
    ingest_runs   \* the number of ingestion runs so far

ingestVars == <<articles, persisted, ingest_runs>>

\* A daily task of the scheduler.
VARIABLES
    wall_clock,        \* datetime.now(UTC), in half hours since 00:00 of day 0
    daily_at_hour,     \* ScheduledTask.daily_at_hour (None while no daily task is registered)
    daily_next_run,    \* ScheduledTask.next_run of the daily task
    daily_last_run,    \* ScheduledTask.last_run of the daily task
    daily_is_running,  \* ScheduledTask.is_running of the daily task
    daily_start_time   \* the local start_time of its execute() (None while it is not running)

dailyVars == <<wall_clock, daily_at_hour, daily_next_run, daily_last_run,
               daily_is_running, daily_start_time>>

\* What the callers of the scheduler have been given back.
VARIABLES
    last_execute,  \* << >>, or <<r>> for the execute() call that returned last: whether
                   \* run_task_now made it, whether the task function was invoked and
                   \* raised, the value returned
    reported       \* per cause ("not_found", "failed"): what the manual triggers that
                   \* ended that way gave back (run_task_now's value, the HTTP status)

callVars == <<last_execute, reported>>

\* The last call of process_articles_for_duplicates: the articles table it
\* ran against, its argument, the outcome of the find_duplicates call of
\* every article, and the two lists it returned.
VARIABLES dedup

dedupVars == <<dedup>>

\* The last call of _is_likely_duplicate: the similarity, publication time
\* and title of the match, the publication time and title of the article,
\* and the answer.
VARIABLES judged

matchVars == <<judged>>

\* One call of NewsAnalyzer.analyze_articles_batch.
VARIABLES
    batch_pc,        \* "idle", "gathering" (awaiting asyncio.gather), "returned"
    batch_articles,  \* the argument
    task_pc,         \* per position: "waiting" for the semaphore, "analyzing", "done"
    task_result,     \* per position: what analyze_with_semaphore returned
    completed,       \* the tasks in the order they finished: position, and whether
                     \* analyze_article returned
    final_results    \* the list returned

analyzeVars == <<batch_pc, batch_articles, task_pc, task_result, completed, final_results>>

\* One run of fetch_articles_background.
VARIABLES
    bg_pc,              \* "idle", "fetching", "analyzing", "storing", "done"
    bg_sources,         \* the sources argument
    bg_fetches,         \* per source already handled: whether fetch raised, what it returned
    all_articles,       \* the articles collected so far
    bg_scores,          \* per collected article: the relevance score, None when scoring failed
    analyzed_articles,  \* what analyze_and_update_articles returned
    dedup_input,        \* the list given to process_articles_for_duplicates
    stored_input,       \* the articles given to batch_create_articles, in order
    bg_table            \* the articles table

pipeVars == <<bg_pc, bg_sources, bg_fetches, all_articles, bg_scores, analyzed_articles,
              dedup_input, stored_input, bg_table>>

\* One embeddings service and its cache.
VARIABLES
    emb_service,        \* "none" before construction, then "local", "gemini" or "openai"
    emb_provider,       \* how the model behind the service reads a text
    emb_cache,          \* self._cache: entries [key, value], least recently used first
    emb_call            \* << >>, or the last call and what came of it

embedVars == <<emb_service, emb_provider, emb_cache, emb_call>>

\* Two calls of process_articles_for_duplicates on the same list of
\* articles: the table, the list, what the calls met, and what each returned.
VARIABLES rerun

rerunVars == <<rerun>>

\* The task list of one TaskScheduler and the last add_task or remove_task
\* call.
VARIABLES
    tasks,              \* TaskScheduler.tasks: the registered tasks, in order
    registry_call       \* the last call: its name, whether it raised, what it returned

registryVars == <<tasks, registry_call>>

\* The audio queue and one call of process_queue.
VARIABLES
    audio_queue,        \* AudioQueueService.queue: tasks [digest_id, status, attempts, old]
    pq_pc,              \* process_queue: "idle", "running"
    pending_tasks,      \* the positions of the pending tasks still to process
    current_task,       \* the position of the task _process_task works on, 0 when none
    retry_count,        \* retry_count of _process_task
    attempt_pc          \* _process_task: "none", "generating", "sleeping"

audioVars == <<audio_queue, pq_pc, pending_tasks, current_task, retry_count, attempt_pc>>

\* The life cycle of one TaskScheduler with one registered task.
VARIABLES
    scheduler_is_running,   \* TaskScheduler.is_running
    scheduler_task,         \* TaskScheduler._scheduler_task: a loop, 0 for None
    loop_state,                \* each _scheduler_loop task: "unborn", "ready", "gathering", "sleeping", "done"
    loop_cancel,            \* cancel() was called on the loop task
    stop_await,             \* each stop() caller: the loop it awaits, 0 when not in stop()
    task_is_running,        \* ScheduledTask.is_running
    exec_pc,                \* the execute() launched by each loop (0: by run_task_now)
    last_exit               \* how the last execute() to end ended

lifeVars == <<scheduler_is_running, scheduler_task, loop_state, loop_cancel, stop_await,
              task_is_running, exec_pc, last_exit>>

\* One RateLimitedHTTPClient and its call of get.
VARIABLES
    http_max_retries,   \* RateLimitedHTTPClient.max_retries
    http_pc,            \* get: "idle", "attempting", "sleeping", "done"
    http_attempt,       \* attempt, the loop variable of get
    http_outcomes,      \* the outcome of every attempt of the call, in order
    http_result         \* how get ended: "none", "response", "FetchError", "None"

httpVars == <<http_max_retries, http_pc, http_attempt, http_outcomes, http_result>>

\* The counters of one ScheduledTask and its status report.
VARIABLES
    stat_run_count,     \* ScheduledTask.run_count
    stat_error_count,   \* ScheduledTask.error_count
    stat_outcomes,      \* the outcome of every finished execution: TRUE for a success
    status              \* the last get_status(): success_rate as <<numerator, denominator>>,
                        \* and the outcomes up to the call

statVars == <<stat_run_count, stat_error_count, stat_outcomes, status>>

vars == <<schedVars, breakerVars, limiterVars, ingestVars, dailyVars,
          callVars, dedupVars, matchVars, analyzeVars, pipeVars,
          embedVars, rerunVars, registryVars, audioVars, lifeVars,
          httpVars, statVars>>

\* What the actions of one subsystem leave alone: the other subsystems.
notSched == <<breakerVars, limiterVars, ingestVars, dailyVars, callVars,
              dedupVars, matchVars, analyzeVars, pipeVars, embedVars,
              rerunVars, registryVars, audioVars, lifeVars, httpVars,
              statVars>>
notBreaker == <<schedVars, limiterVars, ingestVars, dailyVars, callVars,
                dedupVars, matchVars, analyzeVars, pipeVars, embedVars,
                rerunVars, registryVars, audioVars, lifeVars, httpVars,
                statVars>>
notLimiter == <<schedVars, breakerVars, ingestVars, dailyVars, callVars,
                dedupVars, matchVars, analyzeVars, pipeVars, embedVars,
                rerunVars, registryVars, audioVars, lifeVars, httpVars,
                statVars>>
notIngest == <<schedVars, breakerVars, limiterVars, dailyVars, callVars,
               dedupVars, matchVars, analyzeVars, pipeVars, embedVars,
               rerunVars, registryVars, audioVars, lifeVars, httpVars,
               statVars>>
notDaily == <<schedVars, breakerVars, limiterVars, ingestVars, callVars,
              dedupVars, matchVars, analyzeVars, pipeVars, embedVars,
              rerunVars, registryVars, audioVars, lifeVars, httpVars,
              statVars>>
notCalls == <<breakerVars, limiterVars, ingestVars, dailyVars, dedupVars,
              matchVars, analyzeVars, pipeVars, embedVars, rerunVars,
              registryVars, audioVars, lifeVars, httpVars, statVars>>
notMatch == <<schedVars, breakerVars, limiterVars, ingestVars, dailyVars,
              callVars, dedupVars, analyzeVars, pipeVars, embedVars,
              rerunVars, registryVars, audioVars, lifeVars, httpVars,
              statVars>>
notAnalyze == <<schedVars, breakerVars, limiterVars, ingestVars, dailyVars,
                callVars, dedupVars, matchVars, pipeVars, embedVars,
                rerunVars, registryVars, audioVars, lifeVars, httpVars,
                statVars>>
notDedup == <<schedVars, breakerVars, limiterVars, ingestVars, dailyVars,
              callVars, matchVars, analyzeVars, pipeVars, embedVars,
              rerunVars, registryVars, audioVars, lifeVars, httpVars,
              statVars>>
notPipe == <<schedVars, breakerVars, limiterVars, ingestVars, dailyVars,
             callVars, dedupVars, matchVars, analyzeVars, embedVars,
             rerunVars, registryVars, audioVars, lifeVars, httpVars,
             statVars>>
notEmbed == <<schedVars, breakerVars, limiterVars, ingestVars, dailyVars,
              callVars, dedupVars, matchVars, analyzeVars, pipeVars,
              rerunVars, registryVars, audioVars, lifeVars, httpVars,
              statVars>>
notRerun == <<schedVars, breakerVars, limiterVars, ingestVars, dailyVars,
              callVars, dedupVars, matchVars, analyzeVars, pipeVars,
              embedVars, registryVars, audioVars, lifeVars, httpVars,
              statVars>>
notRegistry == <<schedVars, breakerVars, limiterVars, ingestVars, dailyVars,
                 callVars, dedupVars, matchVars, analyzeVars, pipeVars,
                 embedVars, rerunVars, audioVars, lifeVars, httpVars,
                 statVars>>
notAudio == <<schedVars, breakerVars, limiterVars, ingestVars, dailyVars,
              callVars, dedupVars, matchVars, analyzeVars, pipeVars,
              embedVars, rerunVars, registryVars, lifeVars, httpVars,
              statVars>>
notLife == <<schedVars, breakerVars, limiterVars, ingestVars, dailyVars,
             callVars, dedupVars, matchVars, analyzeVars, pipeVars,
             embedVars, rerunVars, registryVars, audioVars, httpVars,
             statVars>>
notHttp == <<schedVars, breakerVars, limiterVars, ingestVars, dailyVars,
             callVars, dedupVars, matchVars, analyzeVars, pipeVars,
             embedVars, rerunVars, registryVars, audioVars, lifeVars,
             statVars>>
notStat == <<schedVars, breakerVars, limiterVars, ingestVars, dailyVars,
             callVars, dedupVars, matchVars, analyzeVars, pipeVars,
             embedVars, rerunVars, registryVars, audioVars, lifeVars,
             httpVars>>

(***************************************************************************)
(*                              TASK SCHEDULER                             *)
(* Time (datetime.now(UTC)) is counted in units of 10 seconds.             *)
(***************************************************************************)

\* Bounds of the scheduler model.
MaxTime == 6
NumManual == 1
MaxRuns == 1
FetchIntervalMinutes == 1
TestIntervalMinutes == 1

\* Program constants, in 10-second units.
TicksPerMinute == 6
FirstRunDelay == 1
CheckInterval == 3

Tasks == {"fetch_articles", "test_task"}
Manual == 1..NumManual
Callers == {0} \cup Manual      \* 0 is the scheduler loop, m > 0 a run_task_now caller
Loop == 0

interval_minutes(t) == IF t = "fetch_articles" THEN FetchIntervalMinutes ELSE TestIntervalMinutes

\* A faulty variant of _calculate_next_run: counted from the completion time.
CalculateNextRunAtCompletion(t, lastRun, current) ==
    current + interval_minutes(t) * TicksPerMinute

\* _calculate_next_run for an interval task: the value assigned to next_run.
CalculateNextRun(t, lastRun, current) ==
    IF lastRun = None
    THEN current + FirstRunDelay
    ELSE lastRun + interval_minutes(t) * TicksPerMinute

\* A faulty variant of should_run: is_running is not looked at.
ShouldRunWhileRunning(t, current_time) ==
    next_run[t] # None /\ current_time >= next_run[t]

\* should_run(current_time)
ShouldRun(t, current_time) ==
    IF is_running[t] THEN FALSE
    ELSE next_run[t] # None /\ current_time >= next_run[t]

\* fetch_articles_background: the outer try/except logs the failure of a
\* stage and returns normally.
FetchArticlesBackground(stage) == "returned"

\* setup_default_tasks.fetch_all_sources: re-raises whatever
\* fetch_articles_background raises.
FetchAllSources(stage) ==
    IF FetchArticlesBackground(stage) = "raised" THEN "raised" ELSE "returned"

\* The task function: "returned" or "raised", given what happens inside it
\* (stage = "ok" or "fail").
TaskFunc(t, stage) ==
    IF t = "fetch_articles" THEN FetchAllSources(stage)
    ELSE IF stage = "fail" THEN "raised" ELSE "returned"

\* A faulty variant of the start of execute(): no re-entrancy guard.
ExecuteBeginUnguarded(t, c) ==
    /\ is_running' = [is_running EXCEPT ![t] = TRUE]
    /\ start_time' = [start_time EXCEPT ![t][c] = now]
    /\ exec' = [exec EXCEPT ![t][c] = "running"]

\* execute(), up to the first suspension point: the re-entrancy guard, then
\* is_running = True and start_time = now.
ExecuteBegin(t, c) ==
    IF is_running[t]
    THEN /\ exec' = [exec EXCEPT ![t][c] = "none"]
         /\ UNCHANGED <<is_running, start_time>>
    ELSE /\ is_running' = [is_running EXCEPT ![t] = TRUE]
         /\ start_time' = [start_time EXCEPT ![t][c] = now]
         /\ exec' = [exec EXCEPT ![t][c] = "running"]

\* A faulty variant of the end of execute(): the except branch does not count.
ExecuteEndUncounted(t, c, stage) ==
    LET out == TaskFunc(t, stage) IN
    /\ last_run' = [last_run EXCEPT ![t] = start_time[t][c]]
    /\ next_run' = [next_run EXCEPT ![t] = CalculateNextRun(t, start_time[t][c], now)]
    /\ run_count' = [run_count EXCEPT ![t] = IF out = "returned" THEN @ + 1 ELSE @]
    /\ UNCHANGED error_count
    /\ bg_failed' = IF t = "fetch_articles" THEN (stage = "fail") ELSE bg_failed
    /\ is_running' = [is_running EXCEPT ![t] = FALSE]
    /\ exec' = [exec EXCEPT ![t][c] = "none"]
    /\ start_time' = [start_time EXCEPT ![t][c] = None]

\* execute(), from the completion of the task function to the finally block.
ExecuteEnd(t, c, stage) ==
    LET out == TaskFunc(t, stage) IN
    /\ last_run' = [last_run EXCEPT ![t] = start_time[t][c]]
    /\ next_run' = [next_run EXCEPT ![t] = CalculateNextRun(t, start_time[t][c], now)]
    /\ run_count' = [run_count EXCEPT ![t] = IF out = "returned" THEN @ + 1 ELSE @]
    /\ error_count' = [error_count EXCEPT ![t] = IF out = "raised" THEN @ + 1 ELSE @]
    /\ bg_failed' = IF t = "fetch_articles" THEN (stage = "fail") ELSE bg_failed
    /\ is_running' = [is_running EXCEPT ![t] = FALSE]
    /\ exec' = [exec EXCEPT ![t][c] = "none"]
    /\ start_time' = [start_time EXCEPT ![t][c] = None]


InitSched ==
    /\ now = 0
    /\ last_run = [t \in Tasks |-> None]
    /\ next_run = [t \in Tasks |-> CalculateNextRun(t, None, 0)]
    /\ run_count = [t \in Tasks |-> 0]
    /\ error_count = [t \in Tasks |-> 0]
    /\ is_running = [t \in Tasks |-> FALSE]
    /\ exec = [t \in Tasks |-> [c \in Callers |-> "none"]]
    /\ start_time = [t \in Tasks |-> [c \in Callers |-> None]]
    /\ bg_failed = FALSE
    /\ loop_pc = "poll"
    /\ loop_time = None

\* The passage of time.
Tick ==
    /\ now < MaxTime
    /\ now' = now + 1
    /\ UNCHANGED <<last_run, next_run, run_count, error_count, is_running, exec,
                   start_time, bg_failed, loop_pc, loop_time>>
    /\ UNCHANGED notSched

\* _scheduler_loop, one iteration up to its first await: read the time,
\* collect the due tasks and create one execution task per due task; with
\* nothing due the loop goes straight to asyncio.sleep(check_interval).
Poll ==
    /\ loop_pc = "poll"
    /\ LET tasks_to_run == {t \in Tasks : ShouldRun(t, now)} IN
       IF tasks_to_run # {}
       THEN /\ exec' = [t \in Tasks |->
                          IF t \in tasks_to_run
                          THEN [exec[t] EXCEPT ![Loop] = "created"]
                          ELSE exec[t]]
            /\ loop_pc' = "gather"
            /\ loop_time' = now
       ELSE /\ loop_pc' = "sleep"
            /\ loop_time' = now + CheckInterval
            /\ UNCHANGED exec
    /\ UNCHANGED <<now, last_run, next_run, run_count, error_count, is_running,
                   start_time, bg_failed>>
    /\ UNCHANGED notSched

\* An execution task created by the loop gets its first turn on the event loop.
LoopExecuteBegin(t) ==
    /\ exec[t][Loop] = "created"
    /\ ExecuteBegin(t, Loop)
    /\ UNCHANGED <<now, last_run, next_run, run_count, error_count, bg_failed,
                   loop_pc, loop_time>>
    /\ UNCHANGED notSched

\* run_task_now(name) for a registered task: get_task, then execute() runs
\* inline up to its first await.
RunTaskNow(t, m) ==
    /\ exec[t][m] = "none"
    /\ run_count[t] + error_count[t] < MaxRuns
    /\ ExecuteBegin(t, m)
    /\ UNCHANGED <<now, last_run, next_run, run_count, error_count, bg_failed,
                   loop_pc, loop_time>>
    /\ UNCHANGED notSched

\* The awaited task function completes (returns or raises) and execute()
\* runs to its end.
ExecuteFinish(t, c, stage) ==
    /\ exec[t][c] = "running"
    /\ ExecuteEnd(t, c, stage)
    /\ UNCHANGED <<now, loop_pc, loop_time>>
    /\ UNCHANGED notSched

\* asyncio.gather returns once every execution task of this iteration is
\* done; the loop then sleeps for check_interval.
GatherDone ==
    /\ loop_pc = "gather"
    /\ \A t \in Tasks : exec[t][Loop] = "none"
    /\ loop_pc' = "sleep"
    /\ loop_time' = now + CheckInterval
    /\ UNCHANGED <<now, last_run, next_run, run_count, error_count, is_running,
                   exec, start_time, bg_failed>>
    /\ UNCHANGED notSched

\* asyncio.sleep(check_interval) is over.
Wake ==
    /\ loop_pc = "sleep"
    /\ now >= loop_time
    /\ loop_pc' = "poll"
    /\ loop_time' = None
    /\ UNCHANGED <<now, last_run, next_run, run_count, error_count, is_running,
                   exec, start_time, bg_failed>>
    /\ UNCHANGED notSched

NextSched ==
    \/ Tick
    \/ Poll
    \/ \E t \in Tasks : LoopExecuteBegin(t)
    \/ \E t \in Tasks, m \in Manual : RunTaskNow(t, m)
    \/ \E t \in Tasks, c \in Callers, stage \in {"ok", "fail"} : ExecuteFinish(t, c, stage)
    \/ GatherDone
    \/ Wake


(***************************************************************************)
(*                     CIRCUIT BREAKER (BaseFetcher)                       *)
(* Time (datetime.utcnow()) is counted in minutes.  fetch_with_result has  *)
(* one caller at a time per fetcher.                                       *)
(***************************************************************************)

\* Bounds of the circuit-breaker model.
MaxUtc == 6
MaxErrors == 7

\* Program constants.
FailureThreshold == 5
CooldownMinutes == 5

Sources == {"arxiv", "hackernews"}

\* The breaker is open: what _is_circuit_breaker_open returns.
IsOpen(s) ==
    /\ circuit_breaker_open_until[s] # None
    /\ utcnow < circuit_breaker_open_until[s]

\* _is_circuit_breaker_open, its effect on the fetcher: an expired deadline
\* is cleared together with the error count.
AfterBreakerCheck(s) ==
    IF circuit_breaker_open_until[s] # None /\ utcnow >= circuit_breaker_open_until[s]
    THEN [count |-> 0, until |-> None]
    ELSE [count |-> cb_error_count[s], until |-> circuit_breaker_open_until[s]]

\* A faulty variant of the except branch: the breaker opens one failure late.
OnFailureLate(count, until) ==
    [count |-> count + 1,
     until |-> IF count + 1 > FailureThreshold THEN utcnow + CooldownMinutes ELSE until]

\* The except branch of fetch_with_result: count the failure and open the
\* breaker at the threshold.
OnFailure(count, until) ==
    [count |-> count + 1,
     until |-> IF count + 1 >= FailureThreshold THEN utcnow + CooldownMinutes ELSE until]

\* opened_at after a step that leaves the breaker state (count, until).
Opened(s, wasOpen, st) ==
    IF st.until = None THEN None
    ELSE IF wasOpen THEN opened_at[s]
    ELSE utcnow

InitBreaker ==
    /\ utcnow = 0
    /\ cb_error_count = [s \in Sources |-> 0]
    /\ circuit_breaker_open_until = [s \in Sources |-> None]
    /\ fetch_pc = [s \in Sources |-> "idle"]
    /\ opened_at = [s \in Sources |-> None]
    /\ direct_fetch = [source |-> "none", ok |-> TRUE]

TickUtc ==
    /\ utcnow < MaxUtc
    /\ utcnow' = utcnow + 1
    /\ UNCHANGED <<cb_error_count, circuit_breaker_open_until, fetch_pc, opened_at, direct_fetch>>
    /\ UNCHANGED notBreaker

\* fetch_with_result up to the await of fetch(): with the breaker open the
\* FetchError raised in the try block is handled by the except branch and
\* the call returns; otherwise the upstream fetch starts.
FetchWithResultBegin(s) ==
    /\ fetch_pc[s] = "idle"
    /\ cb_error_count[s] < MaxErrors
    /\ IF IsOpen(s)
       THEN LET st == OnFailure(cb_error_count[s], circuit_breaker_open_until[s]) IN
            /\ cb_error_count' = [cb_error_count EXCEPT ![s] = st.count]
            /\ circuit_breaker_open_until' = [circuit_breaker_open_until EXCEPT ![s] = st.until]
            /\ opened_at' = [opened_at EXCEPT ![s] = Opened(s, TRUE, st)]
            /\ UNCHANGED fetch_pc
       ELSE LET st == AfterBreakerCheck(s) IN
            /\ cb_error_count' = [cb_error_count EXCEPT ![s] = st.count]
            /\ circuit_breaker_open_until' = [circuit_breaker_open_until EXCEPT ![s] = st.until]
            /\ opened_at' = [opened_at EXCEPT ![s] = Opened(s, FALSE, st)]
            /\ fetch_pc' = [fetch_pc EXCEPT ![s] = "fetching"]
    /\ UNCHANGED <<utcnow, direct_fetch>>
    /\ UNCHANGED notBreaker

\* fetch() returns or raises and fetch_with_result runs to its end.
FetchWithResultEnd(s, ok) ==
    /\ fetch_pc[s] = "fetching"
    /\ LET st == IF ok
                 THEN [count |-> 0, until |-> circuit_breaker_open_until[s]]
                 ELSE OnFailure(cb_error_count[s], circuit_breaker_open_until[s]) IN
       /\ cb_error_count' = [cb_error_count EXCEPT ![s] = st.count]
       /\ circuit_breaker_open_until' = [circuit_breaker_open_until EXCEPT ![s] = st.until]
       /\ opened_at' = [opened_at EXCEPT ![s] = Opened(s, IsOpen(s), st)]
    /\ fetch_pc' = [fetch_pc EXCEPT ![s] = "idle"]
    /\ UNCHANGED <<utcnow, direct_fetch>>
    /\ UNCHANGED notBreaker

\* get_health_status: evaluates _is_circuit_breaker_open for the report.
GetHealthStatus(s) ==
    /\ LET st == AfterBreakerCheck(s) IN
       /\ cb_error_count' = [cb_error_count EXCEPT ![s] = st.count]
       /\ circuit_breaker_open_until' = [circuit_breaker_open_until EXCEPT ![s] = st.until]
       /\ opened_at' = [opened_at EXCEPT ![s] = Opened(s, IsOpen(s), st)]
    /\ UNCHANGED <<utcnow, fetch_pc, direct_fetch>>
    /\ UNCHANGED notBreaker

\* fetch_articles_background, one iteration of its loop over the sources:
\* fetcher.fetch(max_articles=50) is awaited directly and an exception is
\* logged and skipped.
IngestionFetch(s, ok) ==
    /\ direct_fetch' = [source |-> s, ok |-> ok]
    /\ UNCHANGED <<utcnow, cb_error_count, circuit_breaker_open_until, fetch_pc, opened_at>>
    /\ UNCHANGED notBreaker

NextBreaker ==
    \/ TickUtc
    \/ \E s \in Sources : FetchWithResultBegin(s)
    \/ \E s \in Sources, ok \in BOOLEAN : FetchWithResultEnd(s, ok)
    \/ \E s \in Sources : GetHealthStatus(s)
    \/ \E s \in Sources, ok \in BOOLEAN : IngestionFetch(s, ok)


(***************************************************************************)
(*                      RATE LIMITER (RateLimiter)                         *)
(* One limiter with the "elevenlabs" configuration: 0.1 requests per       *)
(* second, burst 2, cooldown 60 s.  Time (time.time()) is counted in units *)
(* of 10 seconds, so one token is added per unit.                          *)
(***************************************************************************)

\* Bounds of the rate-limiter model.
MaxClock == 4
NumWaiters == 2
MaxRequest == 2

\* Program constants (per 10-second unit).
TokensPerUnit == 1
BurstLimit == 2
CooldownUnits == 6

Waiters == 1..NumWaiters
Requests == 1..MaxRequest
Min(a, b) == IF a < b THEN a ELSE b

\* A faulty variant of acquire(n): last_update is not advanced, so the same
\* elapsed time is refilled again by the next call.
AcquireStaleUpdate(n) ==
    LET filled == Min(BurstLimit, tokens + (time - last_update) * TokensPerUnit) IN
    IF filled >= n
    THEN [ok |-> TRUE, tokens |-> filled - n, last_update |-> last_update]
    ELSE [ok |-> FALSE, tokens |-> filled, last_update |-> last_update]

\* A faulty variant of acquire(n): the refill is not capped at burst_limit.
AcquireUncapped(n) ==
    LET filled == tokens + (time - last_update) * TokensPerUnit IN
    IF filled >= n
    THEN [ok |-> TRUE, tokens |-> filled - n, last_update |-> time]
    ELSE [ok |-> FALSE, tokens |-> filled, last_update |-> time]

\* acquire(n), the body under the lock: refill, then grant or refuse.
AcquireResult(n) ==
    LET filled == Min(BurstLimit, tokens + (time - last_update) * TokensPerUnit) IN
    IF filled >= n
    THEN [ok |-> TRUE, tokens |-> filled - n, last_update |-> time]
    ELSE [ok |-> FALSE, tokens |-> filled, last_update |-> time]

\* wait_for_tokens, the sleep computed after a refused acquire.
WaitTime(n, left) == Min((n - left) \div TokensPerUnit, CooldownUnits)

InitLimiter ==
    /\ time = 0
    /\ tokens = BurstLimit
    /\ last_update = 0
    /\ waiter = [w \in Waiters |-> [pc |-> "idle", n |-> 0, wake |-> 0]]
    /\ granted_at = [i \in 0..MaxClock |-> 0]

TickClock ==
    /\ time < MaxClock
    /\ time' = time + 1
    /\ UNCHANGED <<tokens, last_update, waiter, granted_at>>
    /\ UNCHANGED notLimiter

\* The state change of one acquire(n) call.
DoAcquire(n, r) ==
    /\ tokens' = r.tokens
    /\ last_update' = r.last_update
    /\ granted_at' = IF r.ok THEN [granted_at EXCEPT ![time] = @ + n] ELSE granted_at

\* acquire(n) called directly.
Acquire(n) ==
    /\ DoAcquire(n, AcquireResult(n))
    /\ UNCHANGED <<time, waiter>>
    /\ UNCHANGED notLimiter

\* One round of the loop of wait_for_tokens: acquire, and when refused
\* compute the wait and go to sleep.
WaitRound(w, n) ==
    LET r == AcquireResult(n) IN
    /\ DoAcquire(n, r)
    /\ waiter' = [waiter EXCEPT ![w] =
                    IF r.ok THEN [pc |-> "idle", n |-> 0, wake |-> 0]
                    ELSE [pc |-> "sleeping", n |-> n, wake |-> time + WaitTime(n, r.tokens)]]
    /\ UNCHANGED time

\* wait_for_tokens(n) is called.
WaitForTokens(w, n) ==
    /\ waiter[w].pc = "idle"
    /\ WaitRound(w, n)
    /\ UNCHANGED notLimiter

\* asyncio.sleep(wait_time) is over and the loop tries again.
WaitRetry(w) ==
    /\ waiter[w].pc = "sleeping"
    /\ time >= waiter[w].wake
    /\ WaitRound(w, waiter[w].n)
    /\ UNCHANGED notLimiter

NextLimiter ==
    \/ TickClock
    \/ \E n \in Requests : Acquire(n)
    \/ \E w \in Waiters, n \in Requests : WaitForTokens(w, n)
    \/ \E w \in Waiters : WaitRetry(w)

\* Bound of the single-caller model: the largest request of wait_for_tokens.
MaxWaitRequest == 3

\* time.time() goes on past MaxClock: the origin of the clock is moved one
\* unit forward, which keeps every difference the code computes (a refill
\* over MaxClock units or more fills the bucket either way).
ClockRebase ==
    /\ time = MaxClock
    /\ MaxClock * TokensPerUnit >= BurstLimit
    /\ last_update' = IF last_update > 0 THEN last_update - 1 ELSE 0
    /\ waiter' = [w \in Waiters |->
                    [waiter[w] EXCEPT !.wake = IF @ > 0 THEN @ - 1 ELSE 0]]
    /\ granted_at' = [i \in 0..MaxClock |->
                        IF i < MaxClock THEN granted_at[i + 1] ELSE 0]
    /\ UNCHANGED <<time, tokens>>
    /\ UNCHANGED notLimiter

\* One caller of wait_for_tokens, alone on the limiter.
NextWait ==
    \/ TickClock
    \/ ClockRebase
    \/ \E n \in 1..MaxWaitRequest : WaitForTokens(1, n)
    \/ WaitRetry(1)


(***************************************************************************)
(*                          INGESTION PIPELINE                             *)
(* The articles table is a sequence of rows; the id of a row is its        *)
(* position.  The content field of the model stands for content, summary,  *)
(* relevance_score, categories and key_points together.  The embedding of  *)
(* an article is a function of its title and content; identical texts have *)
(* cosine similarity 1.0 and different texts stay below the threshold.     *)
(* Every stored article is inside the 48-hour window of the similarity     *)
(* check.                                                                  *)
(***************************************************************************)

\* Bounds of the ingestion model: the number of articles of one run and the
\* number of runs.
MaxBatch == 2
MaxIngestRuns == 3

\* Program constants, in percent.
HardThresholdPct == 95
SimilarityThresholdPct == 85
TitleThresholdPct == 80

NoEmbedding == <<>>

\* A fetched and analysed article (id None, is_duplicate False).
NewArticle(source, source_id, url, title, content) ==
    [source |-> source, source_id |-> source_id, url |-> url, title |-> title,
     content |-> content, embedding |-> NoEmbedding,
     is_duplicate |-> FALSE, duplicate_of |-> None]

\* The articles the sources can deliver.
Fetchable ==
    { NewArticle("arxiv", "a1", "u1", "t1", "c1"),
      NewArticle("arxiv", "a1", "u1", "t2", "c1"),
      NewArticle("arxiv", "a1", "u1", "t1", "c2"),
      NewArticle("rss", "r1", "u1", "t1", "c1"),
      NewArticle("rss", "r1", "u2", "t1", "c1") }

Batches == UNION {[1..n -> Fetchable] : n \in 1..MaxBatch}

SameKey(a, b) == a.source = b.source /\ a.source_id = b.source_id

\* generate_article_embedding(title, content)
GenerateArticleEmbedding(title, content) == <<title, content>>

\* The similarity the match_articles RPC reports for a stored embedding.
SimilarityPct(e1, e2) == IF e1 = e2 THEN 100 ELSE 0

\* The candidate picked among several rows a query returns in unspecified order.
Pick(ids, pick) ==
    IF pick = "lowest"
    THEN CHOOSE i \in ids : \A j \in ids : i <= j
    ELSE CHOOSE i \in ids : \A j \in ids : i >= j

\* _find_url_duplicate: a non-duplicate row with the same url, limit 1.
FindUrlDuplicate(store, article, pick) ==
    LET hits == {i \in 1..Len(store) : store[i].url = article.url /\ ~store[i].is_duplicate} IN
    IF hits = {} THEN None ELSE Pick(hits, pick)

\* A faulty variant of _is_likely_duplicate: anything above the soft
\* threshold is accepted.
IsLikelyDuplicateAboveSoft(similarityPct, sameDate, titleSimilarityPct) ==
    similarityPct > SimilarityThresholdPct

\* A faulty variant of the decision: the soft threshold is tested first and
\* decides alone whenever the similarity is above it.
IsLikelyDuplicateSoftFirst(hard, soft, similarityPct, sameDate, titleSimilarityPct) ==
    IF similarityPct > soft
    THEN sameDate \/ titleSimilarityPct > TitleThresholdPct
    ELSE similarityPct > hard

\* The decision of _is_likely_duplicate for a hard threshold (0.95 in the
\* code) and a soft threshold (self.similarity_threshold).
IsLikelyDuplicateAt(hard, soft, similarityPct, sameDate, titleSimilarityPct) ==
    IF similarityPct > hard THEN TRUE
    ELSE IF similarityPct > soft
         THEN sameDate \/ titleSimilarityPct > TitleThresholdPct
         ELSE FALSE

\* _is_likely_duplicate
IsLikelyDuplicate(similarityPct, sameDate, titleSimilarityPct) ==
    IsLikelyDuplicateAt(HardThresholdPct, SimilarityThresholdPct,
                        similarityPct, sameDate, titleSimilarityPct)

\* The match_articles RPC: the rows whose similarity to the query embedding
\* is above match_threshold.
MatchArticles(store, embedding) ==
    {i \in 1..Len(store) :
        /\ store[i].embedding # NoEmbedding
        /\ SimilarityPct(embedding, store[i].embedding) > SimilarityThresholdPct}

\* _find_similarity_duplicate: the first match that is a likely duplicate.
FindSimilarityDuplicate(store, article, pick) ==
    IF article.embedding = NoEmbedding THEN None
    ELSE LET hits == {i \in MatchArticles(store, article.embedding) :
                        IsLikelyDuplicate(SimilarityPct(article.embedding, store[i].embedding),
                                          TRUE, 100)} IN
         IF hits = {} THEN None ELSE Pick(hits, pick)

\* find_duplicates: the article as find_duplicates leaves it (its embedding
\* is generated unless a url duplicate was found or the embedding service
\* failed) and the id it returns.
FindDuplicates(store, article, pick, embOk) ==
    LET byUrl == FindUrlDuplicate(store, article, pick) IN
    IF byUrl # None THEN [article |-> article, original |-> byUrl]
    ELSE IF ~embOk THEN [article |-> article, original |-> None]
    ELSE LET withEmb == [article EXCEPT !.embedding =
                            IF @ = NoEmbedding
                            THEN GenerateArticleEmbedding(article.title, article.content)
                            ELSE @] IN
         [article |-> withEmb, original |-> FindSimilarityDuplicate(store, withEmb, pick)]

\* process_articles_for_duplicates: (unique_articles, duplicate_articles)
RECURSIVE ProcessArticlesForDuplicates(_, _, _, _)
ProcessArticlesForDuplicates(store, batch, pick, embOk) ==
    IF batch = <<>> THEN [unique |-> <<>>, duplicates |-> <<>>]
    ELSE LET found == FindDuplicates(store, Head(batch), pick, embOk)
             rest == ProcessArticlesForDuplicates(store, Tail(batch), pick, embOk) IN
         IF found.original # None
         THEN [unique |-> rest.unique,
               duplicates |-> <<[found.article EXCEPT !.is_duplicate = TRUE,
                                                     !.duplicate_of = found.original]>>
                              \o rest.duplicates]
         ELSE [unique |-> <<found.article>> \o rest.unique, duplicates |-> rest.duplicates]


\* The row an INSERT creates for an article.
NewRow(store, a) ==
    [id |-> Len(store) + 1, source |-> a.source, source_id |-> a.source_id,
     url |-> a.url, title |-> a.title, content |-> a.content,
     embedding |-> a.embedding, is_duplicate |-> a.is_duplicate,
     duplicate_of |-> a.duplicate_of]

KeyRows(store, a) == {i \in 1..Len(store) : SameKey(store[i], a)}

\* One article of an upsert with on_conflict="source,source_id": the
\* columns of _article_to_db_dict overwrite the conflicting row (the
\* embedding only when the article has one), otherwise a row is inserted.
UpsertOne(store, a) ==
    IF KeyRows(store, a) = {} THEN Append(store, NewRow(store, a))
    ELSE LET i == CHOOSE k \in KeyRows(store, a) : TRUE IN
         [store EXCEPT ![i] =
            [@ EXCEPT !.url = a.url, !.title = a.title, !.content = a.content,
                      !.embedding = IF a.embedding # NoEmbedding THEN a.embedding ELSE @,
                      !.is_duplicate = a.is_duplicate, !.duplicate_of = a.duplicate_of]]

RECURSIVE UpsertAll(_, _)
UpsertAll(store, batch) ==
    IF batch = <<>> THEN store
    ELSE UpsertAll(UpsertOne(store, Head(batch)), Tail(batch))

\* An upsert statement fails when two of its rows have the same conflict key.
HasKeyClash(batch) ==
    \E i, j \in 1..Len(batch) : i < j /\ SameKey(batch[i], batch[j])

\* _should_update_article
ShouldUpdateArticle(existing, new) ==
    \/ existing.content # new.content
    \/ (new.embedding # NoEmbedding /\ existing.embedding # new.embedding)

\* _fallback_individual_upserts, one article: update the existing row when
\* _should_update_article says so, create the article when there is none.
FallbackOne(store, a) ==
    LET rows == KeyRows(store, a) IN
    IF Cardinality(rows) = 1
    THEN LET i == CHOOSE k \in rows : TRUE IN
         IF ShouldUpdateArticle(store[i], a)
         THEN [store EXCEPT ![i] =
                 [@ EXCEPT !.title = a.title, !.content = a.content,
                           !.embedding = a.embedding]]
         ELSE store
    ELSE IF rows = {} THEN Append(store, NewRow(store, a))
    ELSE store

RECURSIVE FallbackIndividualUpserts(_, _)
FallbackIndividualUpserts(store, batch) ==
    IF batch = <<>> THEN store
    ELSE FallbackIndividualUpserts(FallbackOne(store, Head(batch)), Tail(batch))

\* batch_create_articles: the batch upsert, and the per-article fallback
\* when the upsert raises.
UsesFallback(batch, upsertFails) == upsertFails \/ HasKeyClash(batch)

BatchCreateArticles(store, batch, upsertFails) ==
    IF batch = <<>> THEN store
    ELSE IF UsesFallback(batch, upsertFails)
         THEN FallbackIndividualUpserts(store, batch)
         ELSE UpsertAll(store, batch)

InitIngest ==
    /\ articles = <<>>
    /\ persisted = [unique |-> <<>>, duplicates |-> <<>>,
                    fallback_unique |-> FALSE, fallback_duplicates |-> FALSE]
    /\ ingest_runs = 0

\* fetch_articles_background, from the analysed articles on: partition them
\* against the store, then store the unique articles and then the
\* duplicates.  batch is the list analyze_and_update_articles returned.
IngestionRun(batch, pick, embOk, fails1, fails2) ==
    LET parts == ProcessArticlesForDuplicates(articles, batch, pick, embOk)
        stored == BatchCreateArticles(articles, parts.unique, fails1) IN
    /\ ingest_runs < MaxIngestRuns
    /\ ingest_runs' = ingest_runs + 1
    /\ articles' = BatchCreateArticles(stored, parts.duplicates, fails2)
    /\ persisted' = [unique |-> parts.unique, duplicates |-> parts.duplicates,
                     fallback_unique |-> UsesFallback(parts.unique, fails1),
                     fallback_duplicates |-> UsesFallback(parts.duplicates, fails2)]
    /\ UNCHANGED notIngest

\* The inputs of a run that can make a difference to it: the order of the
\* query results matters only when two rows can answer the same query, the
\* embedding service only when some article has no url duplicate, and a
\* failure of an upsert only for a non-empty batch without a key clash.
PickChoices(store) ==
    IF \E i, j \in 1..Len(store) :
          /\ i < j
          /\ \/ store[i].url = store[j].url /\ ~store[i].is_duplicate /\ ~store[j].is_duplicate
             \/ store[i].embedding = store[j].embedding /\ store[i].embedding # NoEmbedding
    THEN {"lowest", "highest"} ELSE {"lowest"}

EmbeddingChoices(store, batch) ==
    IF \E k \in 1..Len(batch) : FindUrlDuplicate(store, batch[k], "lowest") = None
    THEN BOOLEAN ELSE {TRUE}

FailureChoices(batch) ==
    IF batch = <<>> \/ HasKeyClash(batch) THEN {FALSE} ELSE BOOLEAN

NextIngest ==
    \E batch \in Batches, pick \in PickChoices(articles) :
        \E embOk \in EmbeddingChoices(articles, batch) :
            LET parts == ProcessArticlesForDuplicates(articles, batch, pick, embOk) IN
            \E fails1 \in FailureChoices(parts.unique), fails2 \in FailureChoices(parts.duplicates) :
                IngestionRun(batch, pick, embOk, fails1, fails2)

(***************************************************************************)
(*                        DAILY TASK (ScheduledTask)                       *)
(* Time (datetime.now(UTC)) is counted in half hours since 00:00 UTC of    *)
(* day 0.  One daily task is registered at some time and then executed     *)
(* whenever it is due.                                                     *)
(***************************************************************************)

\* Bounds of the daily-task model: the days the clock runs over and the
\* clock's resolution.
MaxDays == 2
SlotsPerHour == 2

\* Program constant: the hours of a day (daily_at_hour is 0..23).
HoursPerDay == 24

SlotsPerDay == HoursPerDay * SlotsPerHour
MaxWallClock == MaxDays * SlotsPerDay

\* The hours a daily task is registered with: the ends of the range and
\* the default digest hour.
DailyHours == {0, 17, HoursPerDay - 1}

\* now.replace(hour=h, minute=0, second=0, microsecond=0)
ReplaceHour(current, h) == (current \div SlotsPerDay) * SlotsPerDay + h * SlotsPerHour

\* A faulty variant of the daily branch: a task computed exactly at its
\* hour is put off to the next day.
CalculateDailyNextRunStrict(h, current) ==
    LET today == ReplaceHour(current, h) IN
    IF current >= today THEN today + SlotsPerDay ELSE today

\* _calculate_next_run for a daily task: the value assigned to next_run.
CalculateDailyNextRun(h, current) ==
    LET today == ReplaceHour(current, h) IN
    IF current > today THEN today + SlotsPerDay ELSE today

InitDaily ==
    /\ wall_clock = 0
    /\ daily_at_hour = None
    /\ daily_next_run = None
    /\ daily_last_run = None
    /\ daily_is_running = FALSE
    /\ daily_start_time = None

\* The passage of time.
DailyTick ==
    /\ wall_clock < MaxWallClock
    /\ wall_clock' = wall_clock + 1
    /\ UNCHANGED <<daily_at_hour, daily_next_run, daily_last_run, daily_is_running,
                   daily_start_time>>
    /\ UNCHANGED notDaily

\* add_task(name, func, daily_at_hour=h): ScheduledTask.__init__ ends with
\* _calculate_next_run.
AddDailyTask(h) ==
    /\ daily_at_hour = None
    /\ daily_at_hour' = h
    /\ daily_next_run' = CalculateDailyNextRun(h, wall_clock)
    /\ UNCHANGED <<wall_clock, daily_last_run, daily_is_running, daily_start_time>>
    /\ UNCHANGED notDaily

\* The scheduler loop finds the daily task due (should_run) and its
\* execute() starts.
DailyExecuteBegin ==
    /\ daily_at_hour # None
    /\ ~daily_is_running
    /\ daily_next_run # None /\ wall_clock >= daily_next_run
    /\ daily_is_running' = TRUE
    /\ daily_start_time' = wall_clock
    /\ UNCHANGED <<wall_clock, daily_at_hour, daily_next_run, daily_last_run>>
    /\ UNCHANGED notDaily

\* The task function returns or raises and execute() runs to its end.
DailyExecuteEnd ==
    /\ daily_is_running
    /\ daily_last_run' = daily_start_time
    /\ daily_next_run' = CalculateDailyNextRun(daily_at_hour, wall_clock)
    /\ daily_is_running' = FALSE
    /\ daily_start_time' = None
    /\ UNCHANGED <<wall_clock, daily_at_hour>>
    /\ UNCHANGED notDaily

NextDaily ==
    \/ DailyTick
    \/ \E h \in DailyHours : AddDailyTask(h)
    \/ DailyExecuteBegin
    \/ DailyExecuteEnd

(***************************************************************************)
(*                 RETURN VALUES (execute, run_task_now)                   *)
(* The scheduler of the TASK SCHEDULER section together with what its      *)
(* callers are given back: the value of every execute() call, and the      *)
(* value and HTTP status of every manual trigger.  The clock runs as far   *)
(* as the first scheduled launches.                                        *)
(***************************************************************************)

\* Bound of this model: the clock.
MaxCallTime == 3

\* What an execute() call leaves behind when it returns: outcome is
\* "skipped" (the guard returned before the function was invoked),
\* "returned" or "raised" (what the function did).  execute() returns True
\* only after the function has returned.
ExecuteReturned(t, manual, outcome) ==
    [task |-> t, manual |-> manual, invoked |-> outcome # "skipped", raised |-> outcome = "raised",
     value |-> outcome = "returned"]

\* run_task_now(name): False for a name that is not registered, otherwise
\* the value of execute().
RunTaskNowResult(found, executed) == IF ~found THEN FALSE ELSE executed

\* run_scheduler_task, POST /scheduler/task/{name}/run: the HTTP status.
RunSchedulerTask(success) == IF ~success THEN 404 ELSE 200

\* What a manual trigger gives back.
Response(found, executed) ==
    LET success == RunTaskNowResult(found, executed) IN
    [result |-> success, status |-> RunSchedulerTask(success)]

InitCalls ==
    /\ last_execute = << >>
    /\ reported = [not_found |-> {}, failed |-> {}]

\* The passage of time.
CallTick ==
    /\ now < MaxCallTime
    /\ now' = now + 1
    /\ UNCHANGED <<last_run, next_run, run_count, error_count, is_running, exec,
                   start_time, bg_failed, loop_pc, loop_time>>
    /\ UNCHANGED <<callVars, notCalls>>

\* An execution task created by the loop gets its first turn: execute()
\* returns False at once if the task is running.
LoopExecute(t) ==
    /\ exec[t][Loop] = "created"
    /\ ExecuteBegin(t, Loop)
    /\ last_execute' = IF is_running[t] THEN <<ExecuteReturned(t, FALSE, "skipped")>>
                       ELSE last_execute
    /\ UNCHANGED <<now, last_run, next_run, run_count, error_count, bg_failed,
                   loop_pc, loop_time, reported>>
    /\ UNCHANGED notCalls

\* A faulty variant of run_task_now: the task function is started without
\* looking at is_running.
TriggerTaskUnguarded(t, m) ==
    /\ exec[t][m] = "none"
    /\ run_count[t] + error_count[t] < MaxRuns
    /\ ExecuteBeginUnguarded(t, m)
    /\ UNCHANGED <<now, last_run, next_run, run_count, error_count, bg_failed,
                   loop_pc, loop_time, callVars>>
    /\ UNCHANGED notCalls

\* run_task_now(name) for a registered task, up to the first await of
\* execute(); it returns False at once if the task is running.
TriggerTask(t, m) ==
    /\ exec[t][m] = "none"
    /\ run_count[t] + error_count[t] < MaxRuns
    /\ ExecuteBegin(t, m)
    /\ last_execute' = IF is_running[t] THEN <<ExecuteReturned(t, TRUE, "skipped")>>
                       ELSE last_execute
    /\ UNCHANGED <<now, last_run, next_run, run_count, error_count, bg_failed,
                   loop_pc, loop_time, reported>>
    /\ UNCHANGED notCalls

\* run_task_now(name) for a name that is not registered.
TriggerMissing ==
    /\ reported' = [reported EXCEPT !.not_found = @ \cup {Response(FALSE, FALSE)}]
    /\ UNCHANGED <<schedVars, last_execute>>
    /\ UNCHANGED notCalls

\* The awaited task function completes, execute() runs to its end and
\* returns; a manual trigger gives that value back.
ExecuteReturn(t, c, stage) ==
    LET done == ExecuteReturned(t, c # Loop, TaskFunc(t, stage)) IN
    /\ exec[t][c] = "running"
    /\ ExecuteEnd(t, c, stage)
    /\ last_execute' = <<done>>
    /\ reported' = IF c # Loop /\ done.raised
                   THEN [reported EXCEPT !.failed = @ \cup {Response(TRUE, done.value)}]
                   ELSE reported
    /\ UNCHANGED <<now, loop_pc, loop_time>>
    /\ UNCHANGED notCalls

NextCalls ==
    \/ CallTick
    \/ Poll
    \/ \E t \in Tasks : LoopExecute(t)
    \/ \E t \in Tasks, m \in Manual : TriggerTask(t, m)
    \/ TriggerMissing
    \/ \E t \in Tasks, c \in Callers, stage \in {"ok", "fail"} : ExecuteReturn(t, c, stage)
    \/ GatherDone
    \/ Wake

(***************************************************************************)
(*               DEDUPLICATION CALLS (DeduplicationService)                *)
(* One call of process_articles_for_duplicates against an articles table,  *)
(* with the exceptions its collaborators can raise: the url query, the     *)
(* embedding service, the similarity search.  Articles, rows, embeddings   *)
(* and similarities are those of the INGESTION PIPELINE section.           *)
(***************************************************************************)

\* Bounds of this model: the rows written to the table before the call and
\* the articles of the call.
MaxStoreRows == 2
MaxDedupBatch == 2

\* What a call gives back: a value, or an exception.
Return(v) == [raised |-> FALSE, value |-> v]
Raise == [raised |-> TRUE, value |-> None]

\* The steps of find_duplicates that can fail.
FailKinds == {"url", "embedding", "similarity"}

\* The articles of this model: those of the ingestion model and one more
\* source delivering the same story.
DedupArticles == Fetchable \cup {NewArticle("hackernews", "h1", "u1", "t1", "c1")}

\* An article as it was stored: with its embedding, unique or flagged as a
\* duplicate of the first row.
StoredForms(a) ==
    LET e == [a EXCEPT !.embedding = GenerateArticleEmbedding(a.title, a.content)] IN
    {e, [e EXCEPT !.is_duplicate = TRUE, !.duplicate_of = 1]}

\* The articles tables the call can find: upserts of stored articles, where
\* a duplicate row points to an earlier row.
DedupStores ==
    LET forms == UNION {StoredForms(a) : a \in DedupArticles}
        written == UNION {[1..n -> forms] : n \in 0..MaxStoreRows}
        tables == {UpsertAll(<<>>, w) : w \in written} IN
    {t \in tables : \A i \in 1..Len(t) : t[i].is_duplicate => t[i].duplicate_of < i}

DedupBatches == UNION {[1..n -> DedupArticles] : n \in 1..MaxDedupBatch}

\* _find_url_duplicate: an exception of the query is logged and None returned.
FindUrlDuplicateOutcome(store, article, pick, fail) ==
    LET query == IF fail = "url" THEN Raise
                 ELSE Return(FindUrlDuplicate(store, article, pick)) IN
    IF query.raised THEN Return(None) ELSE query

\* embeddings_service.generate_article_embedding
GenerateArticleEmbeddingOutcome(title, content, fail) ==
    IF fail = "embedding" THEN Raise ELSE Return(GenerateArticleEmbedding(title, content))

\* _find_similarity_duplicate: None without an embedding; an exception of
\* the search or of the handling of its rows is logged and None returned.
FindSimilarityDuplicateOutcome(store, article, pick, fail) ==
    IF article.embedding = NoEmbedding THEN Return(None)
    ELSE LET search == IF fail = "similarity" THEN Raise
                       ELSE Return(FindSimilarityDuplicate(store, article, pick)) IN
         IF search.raised THEN Return(None) ELSE search

\* A faulty variant of the try block of find_duplicates: the embedding is
\* generated and the similarity index searched before the url is looked up.
FindDuplicatesTrySimilarityFirst(store, article, pick, fail) ==
    LET generated == IF article.embedding = NoEmbedding
                     THEN GenerateArticleEmbeddingOutcome(article.title, article.content, fail)
                     ELSE Return(article.embedding) IN
    IF generated.raised
    THEN [raised |-> TRUE, value |-> None, article |-> article,
          embedded |-> TRUE, searched |-> FALSE]
    ELSE LET withEmb == [article EXCEPT !.embedding = generated.value]
             bySimilarity == FindSimilarityDuplicateOutcome(store, withEmb, pick, fail)
             byUrl == FindUrlDuplicateOutcome(store, article, pick, fail) IN
         [raised |-> FALSE,
          value |-> IF bySimilarity.value # None THEN bySimilarity.value ELSE byUrl.value,
          article |-> withEmb, embedded |-> article.embedding = NoEmbedding,
          searched |-> TRUE]

\* The try block of find_duplicates: the url check, then the embedding, then
\* the similarity check.  embedded and searched tell whether the embedding
\* service and the similarity index were called.
FindDuplicatesTry(store, article, pick, fail) ==
    LET byUrl == FindUrlDuplicateOutcome(store, article, pick, fail) IN
    IF byUrl.value # None
    THEN [raised |-> FALSE, value |-> byUrl.value, article |-> article,
          embedded |-> FALSE, searched |-> FALSE]
    ELSE LET generated == IF article.embedding = NoEmbedding
                          THEN GenerateArticleEmbeddingOutcome(article.title, article.content, fail)
                          ELSE Return(article.embedding) IN
         IF generated.raised
         THEN [raised |-> TRUE, value |-> None, article |-> article,
               embedded |-> TRUE, searched |-> FALSE]
         ELSE LET withEmb == [article EXCEPT !.embedding = generated.value]
                  bySimilarity == FindSimilarityDuplicateOutcome(store, withEmb, pick, fail) IN
              [raised |-> FALSE, value |-> bySimilarity.value, article |-> withEmb,
               embedded |-> article.embedding = NoEmbedding, searched |-> TRUE]

\* A faulty variant of find_duplicates: no except clause.
FindDuplicatesUncaught(store, article, pick, fail) ==
    FindDuplicatesTry(store, article, pick, fail)

\* A faulty variant of find_duplicates: an article that already carries the
\* duplicate flag is not looked up again.
FindDuplicatesSkipFlagged(store, article, pick, fail) ==
    LET body == FindDuplicatesTry(store, article, pick, fail) IN
    IF body.raised \/ article.is_duplicate
    THEN [body EXCEPT !.raised = FALSE, !.value = None]
    ELSE body

\* find_duplicates: an exception of the try block is logged and None returned.
FindDuplicatesOutcome(store, article, pick, fail) ==
    LET body == FindDuplicatesTry(store, article, pick, fail) IN
    IF body.raised THEN [body EXCEPT !.raised = FALSE, !.value = None] ELSE body

\* A faulty variant of process_articles_for_duplicates: an article found to
\* be a duplicate is flagged and then falls through to the unique list too.
RECURSIVE ProcessFromKeepingDuplicates(_, _, _, _, _, _)
ProcessFromKeepingDuplicates(store, batch, pick, failAt, failKind, k) ==
    IF k > Len(batch) THEN [calls |-> <<>>, unique |-> <<>>, duplicates |-> <<>>]
    ELSE LET found == FindDuplicatesOutcome(store, batch[k], pick,
                                            IF k = failAt THEN failKind ELSE "none")
             rest == ProcessFromKeepingDuplicates(store, batch, pick, failAt, failKind, k + 1)
             flagged == [found.article EXCEPT !.is_duplicate = TRUE,
                                              !.duplicate_of = found.value] IN
         IF ~found.raised /\ found.value # None
         THEN [calls |-> <<found>> \o rest.calls,
               unique |-> <<flagged>> \o rest.unique,
               duplicates |-> <<flagged>> \o rest.duplicates]
         ELSE [calls |-> <<found>> \o rest.calls,
               unique |-> <<found.article>> \o rest.unique,
               duplicates |-> rest.duplicates]

\* process_articles_for_duplicates from article k on; the collaborator named
\* by failKind fails during the call for article failAt.
RECURSIVE ProcessFrom(_, _, _, _, _, _)
ProcessFrom(store, batch, pick, failAt, failKind, k) ==
    IF k > Len(batch) THEN [calls |-> <<>>, unique |-> <<>>, duplicates |-> <<>>]
    ELSE LET found == FindDuplicatesOutcome(store, batch[k], pick,
                                            IF k = failAt THEN failKind ELSE "none")
             rest == ProcessFrom(store, batch, pick, failAt, failKind, k + 1) IN
         IF found.raised
         THEN [calls |-> <<found>> \o rest.calls,
               unique |-> <<found.article>> \o rest.unique,
               duplicates |-> rest.duplicates]
         ELSE IF found.value # None
         THEN [calls |-> <<found>> \o rest.calls,
               unique |-> rest.unique,
               duplicates |-> <<[found.article EXCEPT !.is_duplicate = TRUE,
                                                     !.duplicate_of = found.value]>>
                              \o rest.duplicates]
         ELSE [calls |-> <<found>> \o rest.calls,
               unique |-> <<found.article>> \o rest.unique,
               duplicates |-> rest.duplicates]

InitDedup ==
    dedup = [store |-> <<>>, batch |-> <<>>, failAt |-> 0, failKind |-> "none",
             calls |-> <<>>, unique |-> <<>>, duplicates |-> <<>>]

\* process_articles_for_duplicates(articles)
ProcessArticles(store, batch, pick, failAt, failKind) ==
    LET done == ProcessFrom(store, batch, pick, failAt, failKind, 1) IN
    /\ dedup' = [store |-> store, batch |-> batch, failAt |-> failAt, failKind |-> failKind,
                 calls |-> done.calls, unique |-> done.unique, duplicates |-> done.duplicates]
    /\ UNCHANGED notDedup

\* The model looks at one call.
NextDedup ==
    /\ dedup.batch = <<>>
    /\ \E store \in DedupStores, batch \in DedupBatches :
          \E pick \in PickChoices(store), failAt \in 1..Len(batch), failKind \in FailKinds \cup {"none"} :
              ProcessArticles(store, batch, pick, failAt, failKind)

\* The list of articles after a call: find_duplicates and the loop change
\* the Article objects of the caller in place.
AfterCall(done) ==
    [k \in 1..Len(done.calls) |->
        IF ~done.calls[k].raised /\ done.calls[k].value # None
        THEN [done.calls[k].article EXCEPT !.is_duplicate = TRUE,
                                           !.duplicate_of = done.calls[k].value]
        ELSE done.calls[k].article]

NoRun == [unique |-> <<>>, duplicates |-> <<>>]

InitRerun ==
    rerun = [store |-> <<>>, batch |-> <<>>, pick |-> "lowest", failAt |-> 0,
             failKind |-> "none", runs |-> 0, first |-> NoRun, second |-> NoRun]

\* The first call of process_articles_for_duplicates(articles).
ProcessFirst(store, batch, pick, failAt, failKind) ==
    LET done == ProcessFrom(store, batch, pick, failAt, failKind, 1) IN
    /\ rerun.runs = 0
    /\ rerun' = [store |-> store, batch |-> AfterCall(done), pick |-> pick, failAt |-> failAt,
                 failKind |-> failKind, runs |-> 1,
                 first |-> [unique |-> done.unique, duplicates |-> done.duplicates],
                 second |-> NoRun]
    /\ UNCHANGED notRerun

\* The second call, with the same list: the table is unchanged and answers
\* the same queries as before, and the collaborators behave as before.
ProcessSecond ==
    LET done == ProcessFrom(rerun.store, rerun.batch, rerun.pick, rerun.failAt,
                            rerun.failKind, 1) IN
    /\ rerun.runs = 1
    /\ rerun' = [rerun EXCEPT !.batch = AfterCall(done), !.runs = 2,
                              !.second = [unique |-> done.unique,
                                          duplicates |-> done.duplicates]]
    /\ UNCHANGED notRerun

NextRerun ==
    \/ /\ rerun.runs = 0
       /\ \E store \in DedupStores, batch \in DedupBatches :
             \E pick \in PickChoices(store), failAt \in 1..Len(batch), failKind \in FailKinds \cup {"none"} :
                 ProcessFirst(store, batch, pick, failAt, failKind)
    \/ ProcessSecond

(***************************************************************************)
(*            SIMILARITY CANDIDATES (_is_likely_duplicate)                 *)
(* One call of _is_likely_duplicate(article, match).  Similarities are in  *)
(* percent, publication times in hours since 00:00 of day 0, a title is    *)
(* the sequence of its whitespace-separated words.                         *)
(***************************************************************************)

\* Bound of this model: the days the publication times are spread over.
MatchDays == 2

\* The similarities a match can carry: the two thresholds, their
\* neighbours, and values well inside each range.
MatchSimilarities ==
    {80, SimilarityThresholdPct, SimilarityThresholdPct + 1, 90,
     HardThresholdPct, HardThresholdPct + 1, 100}

\* Publication times: the first and the last hour of each day.
PublishedTimes ==
    UNION {{d * HoursPerDay, d * HoursPerDay + HoursPerDay - 1} : d \in 0..MatchDays - 1}

Titles ==
    { <<"The", "new", "GPT", "model">>,
      <<"new", "gpt", "model">>,
      <<"a", "new", "gpt", "model", "released", "today">>,
      <<"new", "gpt", "model", "released">>,
      <<"new", "gpt", "model", "released", "today", "openai">>,
      <<"new", "gpt", "model", "x1", "x2", "x3", "x4">>,
      <<"new", "gpt", "model", "y1", "y2", "y3">>,
      <<"the", "a">> }

\* str.lower() on the words of the titles.
Lower(word) ==
    IF word = "The" THEN "the" ELSE IF word = "GPT" THEN "gpt" ELSE word

stop_words ==
    {"the", "a", "an", "and", "or", "but", "in", "on", "at", "to", "for", "of", "with", "by"}

\* set(title.lower().split()) - stop_words
Tokens(title) == {Lower(title[i]) : i \in 1..Len(title)} \ stop_words

\* _calculate_title_similarity, in percent: 0 when either title has no
\* token left, otherwise the token overlap.
CalculateTitleSimilarity(title1, title2) ==
    LET tokens1 == Tokens(title1)
        tokens2 == Tokens(title2) IN
    IF tokens1 = {} \/ tokens2 = {} THEN 0
    ELSE (100 * Cardinality(tokens1 \cap tokens2)) \div Cardinality(tokens1 \cup tokens2)

\* datetime.date(): the calendar day of a publication time.
Date(published_at) == published_at \div HoursPerDay

\* _is_likely_duplicate(article, match)
IsLikelyDuplicateOf(similarity, published1, title1, published2, title2) ==
    IsLikelyDuplicate(similarity,
                      Date(published1) = Date(published2),
                      CalculateTitleSimilarity(title1, title2))

InitMatch ==
    judged = [similarity |-> 0, article_published_at |-> 0, article_title |-> <<>>,
              match_published_at |-> 0, match_title |-> <<>>, accepted |-> FALSE]

\* _is_likely_duplicate(article, match)
Judge(similarity, published1, title1, published2, title2) ==
    /\ judged' = [similarity |-> similarity,
                  article_published_at |-> published1,
                  article_title |-> title1,
                  match_published_at |-> published2,
                  match_title |-> title2,
                  accepted |-> IsLikelyDuplicateOf(similarity, published1, title1,
                                                   published2, title2)]
    /\ UNCHANGED notMatch

\* The model looks at one call.
NextMatch ==
    /\ judged.article_title = <<>>
    /\ \E similarity \in MatchSimilarities, t1 \in PublishedTimes, t2 \in PublishedTimes :
          \E title1 \in Titles, title2 \in Titles :
              Judge(similarity, t1, title1, t2, title2)

(***************************************************************************)
(*             BATCH ANALYSIS (NewsAnalyzer.analyze_articles_batch)        *)
(* One call: a task per article, at most max_concurrent of them inside the *)
(* semaphore at a time, finishing in any order; asyncio.gather collects    *)
(* what they return.                                                       *)
(***************************************************************************)

\* Bounds of this model: the articles of the call and max_concurrent.
MaxAnalyzeBatch == 3
MaxConcurrent == 2

\* An article is known by its title.
AnalyzedTitles == {"t1", "t2"}

AnalyzeBatches == UNION {[1..n -> AnalyzedTitles] : n \in 0..MaxAnalyzeBatch}

\* What a task can end with: the NewsAnalysis of an article, Python's None,
\* or an exception.
Analysis(article) == [kind |-> "NewsAnalysis", of |-> article]
NoAnalysis == [kind |-> "None", of |-> ""]
AnalysisError == [kind |-> "Exception", of |-> ""]

\* analyze_article: the analysis of the article, or an exception.
AnalyzeArticle(article, ok) ==
    IF ok THEN Analysis(article) ELSE AnalysisError

\* analyze_with_semaphore, inside the semaphore: the analysis, or None when
\* analyze_article raised.
AnalyzeWithSemaphore(article, ok) ==
    LET analysed == AnalyzeArticle(article, ok) IN
    IF analysed = AnalysisError THEN NoAnalysis ELSE analysed

\* A faulty variant of the collection of the results: in the order the
\* tasks finished.
GatherAsCompleted(results, order) == [k \in 1..Len(order) |-> results[order[k].task]]

\* asyncio.gather(*tasks, return_exceptions=True): the result of each task,
\* the exception it raised in place of a result, in the order of the tasks.
Gather(results, order) == [k \in 1..Len(results) |-> results[k]]

\* for result in results: exceptions become None.
FinalResults(results) ==
    [k \in 1..Len(results) |-> IF results[k] = AnalysisError THEN NoAnalysis ELSE results[k]]

\* Tasks inside the semaphore.
Analyzing == {k \in 1..Len(batch_articles) : task_pc[k] = "analyzing"}

InitAnalyze ==
    /\ batch_pc = "idle"
    /\ batch_articles = <<>>
    /\ task_pc = <<>>
    /\ task_result = <<>>
    /\ completed = <<>>
    /\ final_results = <<>>

\* analyze_articles_batch(items, max_concurrent): [] for no articles,
\* otherwise one task per article, then await gather.
AnalyzeArticlesBatch(items) ==
    /\ batch_pc = "idle"
    /\ batch_articles' = items
    /\ task_pc' = [k \in 1..Len(items) |-> "waiting"]
    /\ task_result' = [k \in 1..Len(items) |-> NoAnalysis]
    /\ batch_pc' = IF items = <<>> THEN "returned" ELSE "gathering"
    /\ UNCHANGED <<completed, final_results>>
    /\ UNCHANGED notAnalyze

\* A faulty variant of the entry: no semaphore.
EnterUnbounded(k) ==
    /\ batch_pc = "gathering"
    /\ task_pc[k] = "waiting"
    /\ task_pc' = [task_pc EXCEPT ![k] = "analyzing"]
    /\ UNCHANGED <<batch_pc, batch_articles, task_result, completed, final_results>>
    /\ UNCHANGED notAnalyze

\* async with semaphore: a task enters when fewer than max_concurrent are inside.
EnterSemaphore(k) ==
    /\ batch_pc = "gathering"
    /\ task_pc[k] = "waiting"
    /\ Cardinality(Analyzing) < MaxConcurrent
    /\ task_pc' = [task_pc EXCEPT ![k] = "analyzing"]
    /\ UNCHANGED <<batch_pc, batch_articles, task_result, completed, final_results>>
    /\ UNCHANGED notAnalyze

\* analyze_article of task k returns or raises; the task leaves the
\* semaphore and is done.
TaskDone(k, ok) ==
    /\ batch_pc = "gathering"
    /\ task_pc[k] = "analyzing"
    /\ task_pc' = [task_pc EXCEPT ![k] = "done"]
    /\ task_result' = [task_result EXCEPT ![k] = AnalyzeWithSemaphore(batch_articles[k], ok)]
    /\ completed' = Append(completed, [task |-> k, ok |-> ok])
    /\ UNCHANGED <<batch_pc, batch_articles, final_results>>
    /\ UNCHANGED notAnalyze

\* gather returns when every task is done; the results are converted and returned.
GatherReturns ==
    /\ batch_pc = "gathering"
    /\ \A k \in 1..Len(batch_articles) : task_pc[k] = "done"
    /\ final_results' = FinalResults(Gather(task_result, completed))
    /\ batch_pc' = "returned"
    /\ UNCHANGED <<batch_articles, task_pc, task_result, completed>>
    /\ UNCHANGED notAnalyze

NextAnalyze ==
    \/ \E items \in AnalyzeBatches : AnalyzeArticlesBatch(items)
    \/ \E k \in 1..Len(batch_articles) : EnterSemaphore(k)
    \/ \E k \in 1..Len(batch_articles), ok \in BOOLEAN : TaskDone(k, ok)
    \/ GatherReturns

(***************************************************************************)
(*              INGESTION RUN (fetch_articles_background)                  *)
(* One run, stage by stage: the fetch of each source in turn, the scoring  *)
(* and filtering of what was collected, then deduplication and storage.    *)
(* The table starts with one row whose url is that of the first arxiv      *)
(* article.                                                                *)
(***************************************************************************)

\* Bounds of this model: the sources of a run and the articles one fetch returns.
MaxSources == 2
MaxFetched == 1

\* Program constant: min_relevance_score of the ingestion run.
MinRelevanceScore == 50

ArticleSource == {"arxiv", "hackernews", "rss"}

\* The scores an analysis can carry: the threshold and the score just below it.
RelevanceScores == {MinRelevanceScore - 1, MinRelevanceScore}

\* The n-th article a source delivers, not yet analysed.
FetchedArticle(source, n) ==
    [source |-> source, source_id |-> n, url |-> <<source, n>>, title |-> <<source, n>>,
     content |-> "c", embedding |-> NoEmbedding, is_duplicate |-> FALSE,
     duplicate_of |-> None, relevance_score |-> None]

\* fetcher.fetch(max_articles): it raises, or returns its first articles.
FetchOutcomes(source) ==
    {Raise} \cup {Return([n \in 1..len |-> FetchedArticle(source, n)]) : len \in 0..MaxFetched}

\* The lists of distinct sources a run is started with.
SourceLists ==
    {l \in UNION {[1..n -> ArticleSource] : n \in 1..MaxSources} :
        \A i, j \in 1..Len(l) : i # j => l[i] # l[j]}

\* The NewsAnalysis of an article with its relevance score.
ScoredAnalysis(article, score) ==
    [kind |-> "NewsAnalysis", of |-> article.title, relevance_score |-> score]

\* analyze_articles_batch: one entry per article, None where the scoring failed.
Analyses(items, scores) ==
    [k \in 1..Len(items) |->
        IF scores[k] = None THEN NoAnalysis ELSE ScoredAnalysis(items[k], scores[k])]

\* update_article_with_analysis
UpdateArticleWithAnalysis(article, analysis) ==
    [article EXCEPT !.relevance_score = analysis.relevance_score]

\* A faulty variant of the filter: articles whose scoring failed are kept.
RECURSIVE AnalyzeAndUpdateKeepingFailed(_, _, _)
AnalyzeAndUpdateKeepingFailed(items, analyses, min_relevance_score) ==
    IF items = <<>> THEN <<>>
    ELSE LET rest == AnalyzeAndUpdateKeepingFailed(Tail(items), Tail(analyses),
                                                   min_relevance_score) IN
         IF Head(analyses) = NoAnalysis THEN <<Head(items)>> \o rest
         ELSE IF Head(analyses).relevance_score >= min_relevance_score
         THEN <<UpdateArticleWithAnalysis(Head(items), Head(analyses))>> \o rest
         ELSE rest

\* analyze_and_update_articles, after analyze_articles_batch: the articles
\* with an analysis whose relevance_score is at least min_relevance_score,
\* updated with it.
RECURSIVE AnalyzeAndUpdateArticles(_, _, _)
AnalyzeAndUpdateArticles(items, analyses, min_relevance_score) ==
    IF items = <<>> THEN <<>>
    ELSE LET rest == AnalyzeAndUpdateArticles(Tail(items), Tail(analyses),
                                              min_relevance_score) IN
         IF Head(analyses) = NoAnalysis THEN rest
         ELSE IF Head(analyses).relevance_score >= min_relevance_score
         THEN <<UpdateArticleWithAnalysis(Head(items), Head(analyses))>> \o rest
         ELSE rest

InitPipe ==
    /\ bg_pc = "idle"
    /\ bg_sources = <<>>
    /\ bg_fetches = <<>>
    /\ all_articles = <<>>
    /\ bg_scores = <<>>
    /\ analyzed_articles = <<>>
    /\ dedup_input = <<>>
    /\ stored_input = <<>>
    /\ bg_table = UpsertAll(<<>>, <<[FetchedArticle("rss", 0) EXCEPT
                                       !.url = FetchedArticle("arxiv", 1).url]>>)

\* fetch_articles_background(sources, ...) is started.
StartRun(sources) ==
    /\ bg_pc = "idle"
    /\ bg_pc' = "fetching"
    /\ bg_sources' = sources
    /\ UNCHANGED <<bg_fetches, all_articles, bg_scores, analyzed_articles, dedup_input,
                   stored_input, bg_table>>
    /\ UNCHANGED notPipe

\* A faulty variant of the fetch loop: the run goes on to the analysis
\* whether or not anything was collected.
FetchSourceThenAnalyze(outcome) ==
    /\ bg_pc = "fetching"
    /\ outcome \in FetchOutcomes(bg_sources[Len(bg_fetches) + 1])
    /\ bg_fetches' = Append(bg_fetches, outcome)
    /\ all_articles' = IF outcome.raised THEN all_articles ELSE all_articles \o outcome.value
    /\ bg_pc' = IF Len(bg_fetches') < Len(bg_sources) THEN "fetching" ELSE "analyzing"
    /\ UNCHANGED <<bg_sources, bg_scores, analyzed_articles, dedup_input, stored_input,
                   bg_table>>
    /\ UNCHANGED notPipe

\* A faulty variant of the fetch loop: an exception of fetch ends the loop.
FetchSourceOrStop(outcome) ==
    /\ bg_pc = "fetching"
    /\ outcome \in FetchOutcomes(bg_sources[Len(bg_fetches) + 1])
    /\ bg_fetches' = Append(bg_fetches, outcome)
    /\ all_articles' = IF outcome.raised THEN all_articles ELSE all_articles \o outcome.value
    /\ bg_pc' = IF Len(bg_fetches') < Len(bg_sources) /\ ~outcome.raised THEN "fetching"
                ELSE IF all_articles' = <<>> THEN "done" ELSE "analyzing"
    /\ UNCHANGED <<bg_sources, bg_scores, analyzed_articles, dedup_input, stored_input,
                   bg_table>>
    /\ UNCHANGED notPipe

\* One turn of `for source in sources`: fetch raises and the source is
\* skipped, or its articles are added to all_articles.  After the last
\* source the run ends if nothing was collected.
FetchSource(outcome) ==
    /\ bg_pc = "fetching"
    /\ outcome \in FetchOutcomes(bg_sources[Len(bg_fetches) + 1])
    /\ bg_fetches' = Append(bg_fetches, outcome)
    /\ all_articles' = IF outcome.raised THEN all_articles ELSE all_articles \o outcome.value
    /\ bg_pc' = IF Len(bg_fetches') < Len(bg_sources) THEN "fetching"
                ELSE IF all_articles' = <<>> THEN "done" ELSE "analyzing"
    /\ UNCHANGED <<bg_sources, bg_scores, analyzed_articles, dedup_input, stored_input,
                   bg_table>>
    /\ UNCHANGED notPipe

\* analyze_and_update_articles(all_articles, min_relevance_score=50.0); the
\* run ends if no article is left.
AnalyzeStage(scores) ==
    /\ bg_pc = "analyzing"
    /\ bg_scores' = scores
    /\ analyzed_articles' = AnalyzeAndUpdateArticles(all_articles,
                                                     Analyses(all_articles, scores),
                                                     MinRelevanceScore)
    /\ bg_pc' = IF analyzed_articles' = <<>> THEN "done" ELSE "storing"
    /\ UNCHANGED <<bg_sources, bg_fetches, all_articles, dedup_input, stored_input, bg_table>>
    /\ UNCHANGED notPipe

\* process_articles_for_duplicates(analyzed_articles), then
\* batch_create_articles of the unique articles and of the duplicates.
StoreStage ==
    LET parts == ProcessArticlesForDuplicates(bg_table, analyzed_articles, "lowest", TRUE)
        stored == BatchCreateArticles(bg_table, parts.unique, FALSE) IN
    /\ bg_pc = "storing"
    /\ dedup_input' = analyzed_articles
    /\ stored_input' = parts.unique \o parts.duplicates
    /\ bg_table' = BatchCreateArticles(stored, parts.duplicates, FALSE)
    /\ bg_pc' = "done"
    /\ UNCHANGED <<bg_sources, bg_fetches, all_articles, bg_scores, analyzed_articles>>
    /\ UNCHANGED notPipe

NextPipe ==
    \/ \E sources \in SourceLists : StartRun(sources)
    \/ \E outcome \in UNION {FetchOutcomes(source) : source \in ArticleSource} :
          FetchSource(outcome)
    \/ \E scores \in [1..Len(all_articles) -> RelevanceScores \cup {None}] :
          AnalyzeStage(scores)
    \/ StoreStage

(***************************************************************************)
(*                          EMBEDDING SERVICES                             *)
(* EmbeddingsService (local sentence-transformers model),                  *)
(* GeminiEmbeddingsService and OpenAIEmbeddingsService.  A text is a       *)
(* sequence of characters.  The model behind a service is a function of    *)
(* the text it is given; which texts it tells apart is not decided by the  *)
(* services (the local model is named by settings.embedding_model): it     *)
(* either tells every two texts apart or ignores case and surrounding      *)
(* white space.  Texts stay below the truncation limits, and the byte      *)
(* accounting of the local cache stays below its limit.                    *)
(***************************************************************************)

\* Bounds of the embeddings model: the length of a text given to
\* generate_embedding, the length and the number of the texts of a batch,
\* and the capacity of the LRU cache.
MaxTextLen == 2
MaxBatchTextLen == 1
MaxEmbedBatch == 2
MaxCacheEntries == 1

\* Program constant: attempts of one API call.
max_retries == 3

Chars == {" ", "a", "A"}
Texts == UNION {[1..n -> Chars] : n \in 0..MaxTextLen}
TextBatches ==
    UNION {[1..n -> {t \in Texts : Len(t) <= MaxBatchTextLen}] : n \in 0..MaxEmbedBatch}
EmbeddingServices == {"local", "gemini", "openai"}
Providers == {"exact", "folding"}

\* text.strip()
RECURSIVE Strip(_)
Strip(text) ==
    IF text = <<>> THEN <<>>
    ELSE IF Head(text) = " " THEN Strip(Tail(text))
    ELSE IF text[Len(text)] = " " THEN Strip(SubSeq(text, 1, Len(text) - 1))
    ELSE text

\* text.lower()
LowerCase(text) == [i \in 1..Len(text) |-> IF text[i] = "A" THEN "a" ELSE text[i]]

\* `not text or not text.strip()`
IsEmptyText(text) == Strip(text) = <<>>

\* normalized_text, the cache key of a text.
NormalizedText(service, text) ==
    IF service = "local" THEN LowerCase(Strip(text)) ELSE Strip(text)

\* The vectors a call can hand out: an embedding computed by the model for
\* some text, [0.0] * dimension, and [].
EmbeddingOf(text) == [kind |-> "embedding", of |-> text]
ZeroVector == [kind |-> "zero", of |-> <<>>]
EmptyVector == [kind |-> "empty", of |-> <<>>]

\* The vector the model computes for a text.
ProviderEmbedding(provider, text) ==
    IF provider = "folding" THEN EmbeddingOf(LowerCase(Strip(text)))
    ELSE EmbeddingOf(text)

\* _generate_embedding_sync / _call_gemini_api / _call_openai_api for one
\* request of which the first `failures` attempts fail: the local model is
\* tried once, the APIs max_retries times.
ProviderCall(service, failures) ==
    LET tries == IF service = "local" THEN 1 ELSE max_retries IN
    [ok |-> failures < tries, attempts |-> Min(failures + 1, tries)]

\* `key in self._cache`, `self._cache[key]` and `self._cache[key] = value`
\* of cachetools.LRUCache.
InCache(cache, key) == \E i \in 1..Len(cache) : cache[i].key = key
CacheValue(cache, key) == cache[CHOOSE i \in 1..Len(cache) : cache[i].key = key].value
CacheWithout(cache, key) == SelectSeq(cache, LAMBDA e : e.key # key)
CacheGet(cache, key) == CacheWithout(cache, key) \o <<[key |-> key, value |-> CacheValue(cache, key)]>>
CacheSet(cache, key, value) ==
    LET put == CacheWithout(cache, key) \o <<[key |-> key, value |-> value]>> IN
    IF Len(put) > MaxCacheEntries THEN Tail(put) ELSE put

\* _add_to_cache(key, embedding)
AddToCache(cache, key, embedding) == CacheSet(cache, key, embedding)

RECURSIVE GetAll(_, _)
GetAll(cache, keys) ==
    IF keys = <<>> THEN cache ELSE GetAll(CacheGet(cache, Head(keys)), Tail(keys))

RECURSIVE AddAllToCache(_, _)
AddAllToCache(cache, entries) ==
    IF entries = <<>> THEN cache
    ELSE AddAllToCache(AddToCache(cache, Head(entries).key, Head(entries).value), Tail(entries))

\* generate_embedding(text, use_cache): ValueError for an empty text, the
\* cached vector on a hit, otherwise the model's vector for the text as it
\* was given, stored under the normalised key.
GenerateEmbeddingResult(service, provider, cache, text, use_cache, failures) ==
    LET normalized_text == NormalizedText(service, text)
        call == ProviderCall(service, failures)
        embedding == ProviderEmbedding(provider, text) IN
    IF IsEmptyText(text)
    THEN [raised |-> TRUE, value |-> <<>>, cache |-> cache, hit |-> FALSE, attempts |-> 0]
    ELSE IF use_cache /\ InCache(cache, normalized_text)
    THEN [raised |-> FALSE, value |-> <<CacheValue(cache, normalized_text)>>,
          cache |-> CacheGet(cache, normalized_text), hit |-> TRUE, attempts |-> 0]
    ELSE IF ~call.ok
    THEN [raised |-> TRUE, value |-> <<>>, cache |-> cache, hit |-> FALSE,
          attempts |-> call.attempts]
    ELSE [raised |-> FALSE, value |-> <<embedding>>,
          cache |-> IF use_cache THEN AddToCache(cache, normalized_text, embedding) ELSE cache,
          hit |-> FALSE, attempts |-> call.attempts]

\* generate_embeddings_batch(texts, use_cache), where `failing` are the
\* positions whose request fails on every attempt.  First pass: empty texts
\* get [] (local) or a zero vector (APIs), cached texts their cached
\* vector.  Second pass: the local service and OpenAI make one request for
\* the rest and let its failure propagate; Gemini calls generate_embedding
\* per text and puts a zero vector where that raised.
GenerateEmbeddingsBatchResult(service, provider, cache, texts, use_cache, failing) ==
    LET idx == 1..Len(texts)
        key(i) == NormalizedText(service, texts[i])
        cached(i) == ~IsEmptyText(texts[i]) /\ use_cache /\ InCache(cache, key(i))
        process(i) == ~IsEmptyText(texts[i]) /\ ~cached(i)
        failed(i) == process(i) /\ i \in failing
        items == [i \in idx |-> [pos |-> i, key |-> key(i),
                                 value |-> ProviderEmbedding(provider, texts[i])]]
        touched == GetAll(cache, [j \in 1..Len(SelectSeq(items, LAMBDA e : cached(e.pos))) |->
                                    SelectSeq(items, LAMBDA e : cached(e.pos))[j].key])
        stored == SelectSeq(items, LAMBDA e : process(e.pos) /\ ~failed(e.pos))
        results == [i \in idx |->
                      IF IsEmptyText(texts[i])
                      THEN (IF service = "local" THEN EmptyVector ELSE ZeroVector)
                      ELSE IF cached(i) THEN CacheValue(cache, key(i))
                      ELSE IF failed(i) THEN ZeroVector
                      ELSE items[i].value] IN
    IF service # "gemini" /\ \E i \in idx : failed(i)
    THEN [raised |-> TRUE, value |-> <<>>, cache |-> touched, hit |-> FALSE, attempts |-> 0]
    ELSE [raised |-> FALSE, value |-> results,
          cache |-> IF use_cache THEN AddAllToCache(touched, stored) ELSE touched,
          hit |-> \E i \in idx : cached(i), attempts |-> 0]

InitEmbed ==
    /\ emb_service = "none"
    /\ emb_provider = "none"
    /\ emb_cache = <<>>
    /\ emb_call = <<>>

\* __init__ of one of the services, with the model it is configured with.
Construct(service, provider) ==
    /\ emb_service = "none"
    /\ emb_service' = service
    /\ emb_provider' = provider
    /\ UNCHANGED <<emb_cache, emb_call>>
    /\ UNCHANGED notEmbed

\* A call of generate_embedding.
GenerateEmbedding(text, use_cache, failures) ==
    LET r == GenerateEmbeddingResult(emb_service, emb_provider, emb_cache, text,
                                     use_cache, failures) IN
    /\ emb_service # "none"
    /\ emb_cache' = r.cache
    /\ emb_call' = <<[op |-> "generate_embedding", texts |-> <<text>>, raised |-> r.raised,
                      value |-> r.value, hit |-> r.hit, attempts |-> r.attempts]>>
    /\ UNCHANGED <<emb_service, emb_provider>>
    /\ UNCHANGED notEmbed

\* A call of generate_embeddings_batch.
GenerateEmbeddingsBatch(texts, use_cache, failing) ==
    LET r == GenerateEmbeddingsBatchResult(emb_service, emb_provider, emb_cache, texts,
                                           use_cache, failing) IN
    /\ emb_service # "none"
    /\ emb_cache' = r.cache
    /\ emb_call' = <<[op |-> "generate_embeddings_batch", texts |-> texts,
                      raised |-> r.raised, value |-> r.value, hit |-> r.hit,
                      attempts |-> r.attempts]>>
    /\ UNCHANGED <<emb_service, emb_provider>>
    /\ UNCHANGED notEmbed

\* clear_cache()
ClearCache ==
    /\ emb_service # "none"
    /\ emb_cache' = <<>>
    /\ UNCHANGED <<emb_service, emb_provider, emb_call>>
    /\ UNCHANGED notEmbed

NextEmbed ==
    \/ \E service \in EmbeddingServices, provider \in Providers : Construct(service, provider)
    \/ \E text \in Texts, use_cache \in BOOLEAN, failures \in 0..max_retries :
         GenerateEmbedding(text, use_cache, failures)
    \/ \E texts \in TextBatches, use_cache \in BOOLEAN : \E failing \in SUBSET (1..Len(texts)) :
         GenerateEmbeddingsBatch(texts, use_cache, failing)
    \/ ClearCache


(***************************************************************************)
(*                 TASK REGISTRY (add_task, remove_task)                   *)
(* The list of tasks of one TaskScheduler.  Both functions are synchronous *)
(* and run without interruption.                                           *)
(***************************************************************************)

TaskNames == {"fetch_articles", "daily_digest", "test_task"}
IntervalChoices == {None, FetchIntervalMinutes}
DailyHourChoices == {None, 6, HoursPerDay}

\* ScheduledTask.__init__: ValueError unless exactly one mode is given and
\* a daily hour is within 0..23.
ValidTask(minutes, hour) ==
    /\ ~(minutes = None /\ hour = None)
    /\ ~(minutes # None /\ hour # None)
    /\ hour # None => (hour >= 0 /\ hour <= 23)

\* any(task.name == name for task in self.tasks)
Registered(name) == \E i \in 1..Len(tasks) : tasks[i].name = name

InitRegistry ==
    /\ tasks = <<>>
    /\ registry_call = [op |-> "none", name |-> "", raised |-> FALSE, returned |-> FALSE]

\* A faulty variant of add_task: the name is not looked up first.
AddTaskUnchecked(name, minutes, hour) ==
    /\ Len(tasks) < Cardinality(TaskNames) + 1
    /\ IF ~ValidTask(minutes, hour)
       THEN /\ tasks' = tasks
            /\ registry_call' = [op |-> "add_task", name |-> name, raised |-> TRUE,
                                 returned |-> FALSE]
       ELSE /\ tasks' = Append(tasks, [name |-> name, interval_minutes |-> minutes,
                                       daily_at_hour |-> hour])
            /\ registry_call' = [op |-> "add_task", name |-> name, raised |-> FALSE,
                                 returned |-> TRUE]
    /\ UNCHANGED notRegistry

\* add_task(name, func, interval_minutes, daily_at_hour): ValueError for a
\* name already in the list or an invalid configuration, otherwise the new
\* task is appended and returned.
AddTask(name, minutes, hour) ==
    /\ IF Registered(name) \/ ~ValidTask(minutes, hour)
       THEN /\ tasks' = tasks
            /\ registry_call' = [op |-> "add_task", name |-> name, raised |-> TRUE,
                                 returned |-> FALSE]
       ELSE /\ tasks' = Append(tasks, [name |-> name, interval_minutes |-> minutes,
                                       daily_at_hour |-> hour])
            /\ registry_call' = [op |-> "add_task", name |-> name, raised |-> FALSE,
                                 returned |-> TRUE]
    /\ UNCHANGED notRegistry

\* remove_task(name): deletes the first task of that name and returns True,
\* or returns False.
RemoveTask(name) ==
    /\ IF Registered(name)
       THEN LET i == CHOOSE k \in 1..Len(tasks) :
                        tasks[k].name = name /\ \A j \in 1..k - 1 : tasks[j].name # name IN
            /\ tasks' = SubSeq(tasks, 1, i - 1) \o SubSeq(tasks, i + 1, Len(tasks))
            /\ registry_call' = [op |-> "remove_task", name |-> name, raised |-> FALSE,
                                 returned |-> TRUE]
       ELSE /\ tasks' = tasks
            /\ registry_call' = [op |-> "remove_task", name |-> name, raised |-> FALSE,
                                 returned |-> FALSE]
    /\ UNCHANGED notRegistry

NextRegistry ==
    \/ \E name \in TaskNames, minutes \in IntervalChoices,
          hour \in DailyHourChoices :
            AddTask(name, minutes, hour)
    \/ \E name \in TaskNames : RemoveTask(name)

(***************************************************************************)
(*                    AUDIO QUEUE (AudioQueueService)                      *)
(* process_queue holds processing_lock, so one call is in progress at a    *)
(* time.  attempts counts the generation attempts of the last              *)
(* _process_task call for a task; old marks a completed task processed     *)
(* more than an hour ago.  An await of _process_task (the generation, the  *)
(* upload, the sleep between attempts) ends with its result, with an       *)
(* exception, or with the cancellation of the calling task.                *)
(***************************************************************************)

\* Bounds of the audio model: the tasks in the queue and the digests.
MaxAudioTasks == 2
MaxDigests == 2

\* Program constant: self.max_retries of AudioQueueService.
AudioMaxRetries == 3

AudioTask(digest_id) ==
    [digest_id |-> digest_id, status |-> "pending", attempts |-> 0, old |-> FALSE]

InitAudio ==
    /\ audio_queue = <<>>
    /\ pq_pc = "idle"
    /\ pending_tasks = <<>>
    /\ current_task = 0
    /\ retry_count = 0
    /\ attempt_pc = "none"

\* queue_audio_generation(digest_id, text, voice_type, force)
QueueAudioGeneration(digest_id, force) ==
    /\ Len(audio_queue) < MaxAudioTasks
    /\ audio_queue' =
          IF ~force /\ \E i \in 1..Len(audio_queue) :
                          audio_queue[i].digest_id = digest_id /\ audio_queue[i].status # "failed"
          THEN audio_queue
          ELSE Append(audio_queue, AudioTask(digest_id))
    /\ UNCHANGED <<pq_pc, pending_tasks, current_task, retry_count, attempt_pc>>
    /\ UNCHANGED notAudio

\* retry_failed_tasks()
RetryFailedTasks ==
    /\ audio_queue' = [i \in 1..Len(audio_queue) |->
                          IF audio_queue[i].status = "failed"
                          THEN [audio_queue[i] EXCEPT !.status = "pending"]
                          ELSE audio_queue[i]]
    /\ UNCHANGED <<pq_pc, pending_tasks, current_task, retry_count, attempt_pc>>
    /\ UNCHANGED notAudio

\* An hour goes by: the completed tasks are older than the cutoff.
HourPasses ==
    /\ \E i \in 1..Len(audio_queue) : audio_queue[i].status = "completed" /\ ~audio_queue[i].old
    /\ audio_queue' = [i \in 1..Len(audio_queue) |->
                          IF audio_queue[i].status = "completed"
                          THEN [audio_queue[i] EXCEPT !.old = TRUE]
                          ELSE audio_queue[i]]
    /\ UNCHANGED <<pq_pc, pending_tasks, current_task, retry_count, attempt_pc>>
    /\ UNCHANGED notAudio

\* process_queue takes the lock and lists the pending tasks.
ProcessQueueBegin ==
    /\ pq_pc = "idle"
    /\ pq_pc' = "running"
    /\ pending_tasks' = SelectSeq([i \in 1..Len(audio_queue) |-> i],
                                  LAMBDA i : audio_queue[i].status = "pending")
    /\ UNCHANGED <<audio_queue, current_task, retry_count, attempt_pc>>
    /\ UNCHANGED notAudio

\* _process_task(task) starts: PROCESSING, retry_count = 0, first attempt.
ProcessTaskBegin ==
    /\ pq_pc = "running"
    /\ attempt_pc = "none"
    /\ pending_tasks # <<>>
    /\ current_task' = Head(pending_tasks)
    /\ pending_tasks' = Tail(pending_tasks)
    /\ retry_count' = 0
    /\ attempt_pc' = "generating"
    /\ audio_queue' = [audio_queue EXCEPT ![Head(pending_tasks)] =
                          [@ EXCEPT !.status = "processing", !.attempts = 1]]
    /\ UNCHANGED pq_pc
    /\ UNCHANGED notAudio

\* The try block runs to its end: COMPLETED, and _process_task returns.
AttemptSucceeds ==
    /\ attempt_pc = "generating"
    /\ audio_queue' = [audio_queue EXCEPT ![current_task] = [@ EXCEPT !.status = "completed"]]
    /\ attempt_pc' = "none"
    /\ current_task' = 0
    /\ UNCHANGED <<pq_pc, pending_tasks, retry_count>>
    /\ UNCHANGED notAudio

\* The try block raises: retry_count goes up; below max_retries the task
\* sleeps, otherwise it is FAILED and the exception is raised to
\* process_queue, which marks the task FAILED and goes on.
AttemptFails ==
    /\ attempt_pc = "generating"
    /\ retry_count' = retry_count + 1
    /\ IF retry_count + 1 < AudioMaxRetries
       THEN /\ attempt_pc' = "sleeping"
            /\ UNCHANGED <<audio_queue, current_task>>
       ELSE /\ attempt_pc' = "none"
            /\ audio_queue' = [audio_queue EXCEPT ![current_task] = [@ EXCEPT !.status = "failed"]]
            /\ current_task' = 0
    /\ UNCHANGED <<pq_pc, pending_tasks>>
    /\ UNCHANGED notAudio

\* asyncio.sleep(retry_delay) is over: the next attempt.
RetryAttempt ==
    /\ attempt_pc = "sleeping"
    /\ attempt_pc' = "generating"
    /\ audio_queue' = [audio_queue EXCEPT ![current_task] = [@ EXCEPT !.attempts = @ + 1]]
    /\ UNCHANGED <<pq_pc, pending_tasks, current_task, retry_count>>
    /\ UNCHANGED notAudio

\* The task awaiting in _process_task is cancelled: CancelledError is not
\* an Exception, so it passes the except clauses of _process_task and of
\* process_queue, and the lock is released.
ProcessingCancelled ==
    /\ attempt_pc \in {"generating", "sleeping"}
    /\ attempt_pc' = "none"
    /\ current_task' = 0
    /\ pending_tasks' = <<>>
    /\ pq_pc' = "idle"
    /\ UNCHANGED <<audio_queue, retry_count>>
    /\ UNCHANGED notAudio

\* process_queue after its loop: completed tasks older than an hour are
\* dropped and the count returned.
ProcessQueueEnd ==
    /\ pq_pc = "running"
    /\ attempt_pc = "none"
    /\ pending_tasks = <<>>
    /\ audio_queue' = SelectSeq(audio_queue, LAMBDA t : t.status # "completed" \/ ~t.old)
    /\ pq_pc' = "idle"
    /\ UNCHANGED <<pending_tasks, current_task, retry_count, attempt_pc>>
    /\ UNCHANGED notAudio

NextAudio ==
    \/ \E digest_id \in 1..MaxDigests, force \in BOOLEAN : QueueAudioGeneration(digest_id, force)
    \/ RetryFailedTasks
    \/ HourPasses
    \/ ProcessQueueBegin
    \/ ProcessTaskBegin
    \/ AttemptSucceeds
    \/ AttemptFails
    \/ RetryAttempt
    \/ ProcessingCancelled
    \/ ProcessQueueEnd

(***************************************************************************)
(*              SCHEDULER LIFE CYCLE (start, stop, the loop)               *)
(* Every coroutine runs without interruption between two awaits.  A loop   *)
(* task awaits in gather and in sleep; stop() awaits the loop task it      *)
(* cancelled; execute() awaits the task function.  cancel() on a task      *)
(* awaiting gather cancels the gathered executions, and the task ends      *)
(* when they have ended.  A task cancelled before its first step never     *)
(* runs its coroutine.                                                     *)
(***************************************************************************)

\* Bounds of the life-cycle model: the loops ever created and the
\* concurrent callers of stop().
MaxLoops == 3
MaxStoppers == 2

Loops == 1..MaxLoops
Stoppers == 1..MaxStoppers
ManualRun == 0
Executors == {ManualRun} \cup Loops

Alive(l) == loop_state[l] \in {"ready", "gathering", "sleeping"}

InitLife ==
    /\ scheduler_is_running = FALSE
    /\ scheduler_task = 0
    /\ loop_state = [l \in Loops |-> "unborn"]
    /\ loop_cancel = [l \in Loops |-> FALSE]
    /\ stop_await = [s \in Stoppers |-> 0]
    /\ task_is_running = FALSE
    /\ exec_pc = [e \in Executors |-> "none"]
    /\ last_exit = "none"

\* A faulty start(): no check of is_running.
StartUnguarded ==
    /\ \E l \in Loops : loop_state[l] = "unborn"
    /\ LET l == CHOOSE k \in Loops : loop_state[k] = "unborn" /\ \A j \in Loops : loop_state[j] = "unborn" => k <= j
       IN /\ scheduler_is_running' = TRUE
          /\ loop_state' = [loop_state EXCEPT ![l] = "ready"]
          /\ scheduler_task' = l
    /\ UNCHANGED <<loop_cancel, stop_await, task_is_running, exec_pc, last_exit>>
    /\ UNCHANGED notLife

\* TaskScheduler.start()
Start ==
    /\ IF scheduler_is_running
       THEN UNCHANGED <<scheduler_is_running, loop_state, scheduler_task>>
       ELSE /\ \E l \in Loops : loop_state[l] = "unborn"
            /\ LET l == CHOOSE k \in Loops :
                            loop_state[k] = "unborn" /\ \A j \in Loops : loop_state[j] = "unborn" => k <= j
               IN /\ scheduler_is_running' = TRUE
                  /\ loop_state' = [loop_state EXCEPT ![l] = "ready"]
                  /\ scheduler_task' = l
    /\ UNCHANGED <<loop_cancel, stop_await, task_is_running, exec_pc, last_exit>>
    /\ UNCHANGED notLife

\* TaskScheduler.stop() up to its await (or to its return).
StopBegin(s) ==
    /\ stop_await[s] = 0
    /\ IF ~scheduler_is_running
       THEN UNCHANGED <<scheduler_is_running, loop_cancel, stop_await>>
       ELSE /\ scheduler_is_running' = FALSE
            /\ IF scheduler_task # 0
               THEN /\ loop_cancel' = [loop_cancel EXCEPT ![scheduler_task] =
                                          @ \/ loop_state[scheduler_task] # "done"]
                    /\ stop_await' = [stop_await EXCEPT ![s] = scheduler_task]
               ELSE UNCHANGED <<loop_cancel, stop_await>>
    /\ UNCHANGED <<scheduler_task, loop_state, task_is_running, exec_pc, last_exit>>
    /\ UNCHANGED notLife

\* stop() after its await: the awaited loop task has ended.
StopEnd(s) ==
    /\ stop_await[s] # 0
    /\ loop_state[stop_await[s]] = "done"
    /\ scheduler_task' = 0
    /\ stop_await' = [stop_await EXCEPT ![s] = 0]
    /\ UNCHANGED <<scheduler_is_running, loop_state, loop_cancel, task_is_running, exec_pc, last_exit>>
    /\ UNCHANGED notLife

\* _scheduler_loop from its start or from the end of its sleep to its next
\* await: the while test, then the launch of the task when it is due.
SchedulerLoopStep(l, due) ==
    /\ loop_state[l] \in {"ready", "sleeping"}
    /\ ~loop_cancel[l]
    /\ IF ~scheduler_is_running
       THEN /\ loop_state' = [loop_state EXCEPT ![l] = "done"]
            /\ UNCHANGED exec_pc
       ELSE IF due
            THEN /\ loop_state' = [loop_state EXCEPT ![l] = "gathering"]
                 /\ exec_pc' = [exec_pc EXCEPT ![l] = "created"]
            ELSE /\ loop_state' = [loop_state EXCEPT ![l] = "sleeping"]
                 /\ UNCHANGED exec_pc
    /\ UNCHANGED <<scheduler_is_running, scheduler_task, loop_cancel, stop_await,
                   task_is_running, last_exit>>
    /\ UNCHANGED notLife

\* run_task_now: execute() called outside the loop.
RunNow ==
    /\ exec_pc[ManualRun] = "none"
    /\ exec_pc' = [exec_pc EXCEPT ![ManualRun] = "created"]
    /\ UNCHANGED <<scheduler_is_running, scheduler_task, loop_state, loop_cancel, stop_await,
                   task_is_running, last_exit>>
    /\ UNCHANGED notLife

\* execute() up to the await of the task function, or to `return False`.
ExecuteStart(e) ==
    /\ exec_pc[e] = "created"
    /\ IF task_is_running
       THEN /\ exec_pc' = [exec_pc EXCEPT ![e] = "none"]
            /\ last_exit' = "skipped"
            /\ UNCHANGED task_is_running
       ELSE /\ task_is_running' = TRUE
            /\ exec_pc' = [exec_pc EXCEPT ![e] = "running"]
            /\ UNCHANGED last_exit
    /\ UNCHANGED <<scheduler_is_running, scheduler_task, loop_state, loop_cancel, stop_await>>
    /\ UNCHANGED notLife

\* The task function returns or raises an Exception: the finally clause.
ExecuteExit(e, ok) ==
    /\ exec_pc[e] = "running"
    /\ task_is_running' = FALSE
    /\ exec_pc' = [exec_pc EXCEPT ![e] = "none"]
    /\ last_exit' = IF ok THEN "returned" ELSE "failed"
    /\ UNCHANGED <<scheduler_is_running, scheduler_task, loop_state, loop_cancel, stop_await>>
    /\ UNCHANGED notLife

\* A faulty variant: the flag is cleared in the try and except branches
\* only, so a cancelled execution leaves it set.
ExecuteCancelledFlagKept(l) ==
    /\ loop_cancel[l]
    /\ loop_state[l] = "gathering"
    /\ exec_pc[l] \in {"created", "running"}
    /\ exec_pc' = [exec_pc EXCEPT ![l] = "none"]
    /\ last_exit' = IF exec_pc[l] = "running" THEN "cancelled" ELSE last_exit
    /\ UNCHANGED <<scheduler_is_running, scheduler_task, loop_state, loop_cancel, stop_await,
                   task_is_running>>
    /\ UNCHANGED notLife

\* The execution gathered by a cancelled loop is cancelled: CancelledError
\* passes `except Exception`, the finally clause runs when the flag had
\* been set; an execution not yet started never runs.
ExecuteCancelled(l) ==
    /\ loop_cancel[l]
    /\ loop_state[l] = "gathering"
    /\ exec_pc[l] \in {"created", "running"}
    /\ task_is_running' = IF exec_pc[l] = "running" THEN FALSE ELSE task_is_running
    /\ exec_pc' = [exec_pc EXCEPT ![l] = "none"]
    /\ last_exit' = IF exec_pc[l] = "running" THEN "cancelled" ELSE last_exit
    /\ UNCHANGED <<scheduler_is_running, scheduler_task, loop_state, loop_cancel, stop_await>>
    /\ UNCHANGED notLife

\* gather returns in a loop that was not cancelled: on to sleep.
LoopGatherReturns(l) ==
    /\ loop_state[l] = "gathering"
    /\ ~loop_cancel[l]
    /\ exec_pc[l] = "none"
    /\ loop_state' = [loop_state EXCEPT ![l] = "sleeping"]
    /\ UNCHANGED <<scheduler_is_running, scheduler_task, loop_cancel, stop_await,
                   task_is_running, exec_pc, last_exit>>
    /\ UNCHANGED notLife

\* The cancelled loop task ends: at once when asleep or not yet started,
\* after its gathered execution when gathering.
SchedulerLoopCancelled(l) ==
    /\ loop_cancel[l]
    /\ Alive(l)
    /\ loop_state[l] = "gathering" => exec_pc[l] = "none"
    /\ loop_state' = [loop_state EXCEPT ![l] = "done"]
    /\ UNCHANGED <<scheduler_is_running, scheduler_task, loop_cancel, stop_await,
                   task_is_running, exec_pc, last_exit>>
    /\ UNCHANGED notLife

NextLife ==
    \/ Start
    \/ \E s \in Stoppers : StopBegin(s)
    \/ \E s \in Stoppers : StopEnd(s)
    \/ \E l \in Loops, due \in BOOLEAN : SchedulerLoopStep(l, due)
    \/ RunNow
    \/ \E e \in Executors : ExecuteStart(e)
    \/ \E e \in Executors, ok \in BOOLEAN : ExecuteExit(e, ok)
    \/ \E l \in Loops : ExecuteCancelled(l)
    \/ \E l \in Loops : LoopGatherReturns(l)
    \/ \E l \in Loops : SchedulerLoopCancelled(l)

(***************************************************************************)
(*                 HTTP CLIENT (RateLimitedHTTPClient.get)                 *)
(* An attempt is _apply_rate_limit, the request and raise_for_status; it   *)
(* ends with a response, with HTTPStatusError (status 429 or another) or   *)
(* with another Exception.  The lengths of the sleeps are left out.        *)
(***************************************************************************)

\* Bound of the client model: the largest max_retries a client is built with.
MaxHttpRetries == 3

\* Program constant: the default of max_retries.
DefaultMaxRetries == 3

AttemptOutcomes == {"success", "http_429", "http_error", "network_error"}

InitHttp ==
    /\ http_max_retries = DefaultMaxRetries
    /\ http_pc = "idle"
    /\ http_attempt = 0
    /\ http_outcomes = <<>>
    /\ http_result = "none"

\* RateLimitedHTTPClient(requests_per_second, max_retries)
NewClient(retries) ==
    /\ http_pc \in {"idle", "done"}
    /\ http_max_retries' = retries
    /\ http_pc' = "idle"
    /\ http_attempt' = 0
    /\ http_outcomes' = <<>>
    /\ http_result' = "none"
    /\ UNCHANGED notHttp

\* get(url) is called: range(self.max_retries + 1) is never empty.
GetBegin ==
    /\ http_pc \in {"idle", "done"}
    /\ http_pc' = "attempting"
    /\ http_attempt' = 0
    /\ http_outcomes' = <<>>
    /\ http_result' = "none"
    /\ UNCHANGED http_max_retries
    /\ UNCHANGED notHttp

\* The body of the loop for one attempt, up to a return, a raise or the
\* sleep of the backoff.
GetAttempt(outcome) ==
    /\ http_pc = "attempting"
    /\ http_outcomes' = Append(http_outcomes, outcome)
    /\ CASE outcome = "success" ->
              http_pc' = "done" /\ http_result' = "response"
         [] outcome = "http_429" ->
              http_pc' = "sleeping" /\ UNCHANGED http_result
         [] outcome = "http_error" ->
              http_pc' = "done" /\ http_result' = "FetchError"
         [] outcome = "network_error" ->
              IF http_attempt = http_max_retries
              THEN http_pc' = "done" /\ http_result' = "FetchError"
              ELSE http_pc' = "sleeping" /\ UNCHANGED http_result
    /\ UNCHANGED <<http_max_retries, http_attempt>>
    /\ UNCHANGED notHttp

\* The sleep is over: the next value of the range, or the end of the loop
\* and of the function.
GetAfterBackoff ==
    /\ http_pc = "sleeping"
    /\ IF http_attempt < http_max_retries
       THEN /\ http_attempt' = http_attempt + 1
            /\ http_pc' = "attempting"
            /\ UNCHANGED http_result
       ELSE /\ http_pc' = "done"
            /\ http_result' = "None"
            /\ UNCHANGED http_attempt
    /\ UNCHANGED <<http_max_retries, http_outcomes>>
    /\ UNCHANGED notHttp

NextHttp ==
    \/ \E retries \in 0..MaxHttpRetries : NewClient(retries)
    \/ GetBegin
    \/ \E outcome \in AttemptOutcomes : GetAttempt(outcome)
    \/ GetAfterBackoff

(***************************************************************************)
(*                TASK STATUS (ScheduledTask.get_status)                   *)
(* success_rate is a quotient of two counters times 100; it is kept as     *)
(* the fraction numerator / denominator, with a positive denominator.      *)
(***************************************************************************)

\* Bound of the status model: the executions of the task.
MaxAttempts == 4

Successes(outcomes) == Cardinality({i \in 1..Len(outcomes) : outcomes[i]})

\* The success_rate expression of get_status.
SuccessRate(runs, errors) ==
    IF runs > 0 THEN <<(runs - errors) * 100, runs>> ELSE <<0, 1>>

InitStat ==
    /\ stat_run_count = 0
    /\ stat_error_count = 0
    /\ stat_outcomes = <<>>
    /\ status = [success_rate |-> <<0, 1>>, outcomes |-> <<>>, asked |-> FALSE]

\* One execute() of the task from its guard to its finally clause: a
\* success adds one to run_count, an Exception one to error_count.
ExecuteCounted(ok) ==
    /\ Len(stat_outcomes) < MaxAttempts
    /\ stat_run_count' = IF ok THEN stat_run_count + 1 ELSE stat_run_count
    /\ stat_error_count' = IF ok THEN stat_error_count ELSE stat_error_count + 1
    /\ stat_outcomes' = Append(stat_outcomes, ok)
    /\ UNCHANGED status
    /\ UNCHANGED notStat

\* get_status()
GetStatus ==
    /\ status' = [success_rate |-> SuccessRate(stat_run_count, stat_error_count),
                  outcomes |-> stat_outcomes, asked |-> TRUE]
    /\ UNCHANGED <<stat_run_count, stat_error_count, stat_outcomes>>
    /\ UNCHANGED notStat

NextStat ==
    \/ \E ok \in BOOLEAN : ExecuteCounted(ok)
    \/ GetStatus

(***************************************************************************)
(*                            SPECIFICATIONS                               *)
(***************************************************************************)

Init == InitSched /\ InitBreaker /\ InitLimiter /\ InitIngest /\ InitDaily /\ InitCalls
        /\ InitDedup /\ InitMatch /\ InitAnalyze /\ InitPipe /\ InitEmbed
        /\ InitRerun /\ InitRegistry /\ InitAudio /\ InitLife /\ InitHttp /\ InitStat

SpecSched == Init /\ [][NextSched]_vars

SpecBreaker == Init /\ [][NextBreaker]_vars

SpecLimiter == Init /\ [][NextLimiter]_vars

\* The clock advances and a caller whose sleep is over runs again.
FairWait ==
    /\ Init /\ [][NextWait]_vars
    /\ WF_vars(TickClock \/ ClockRebase)
    /\ WF_vars(WaitRetry(1))

SpecIngest == Init /\ [][NextIngest]_vars

SpecDaily == Init /\ [][NextDaily]_vars

SpecCalls == Init /\ [][NextCalls]_vars

SpecDedup == Init /\ [][NextDedup]_vars

SpecMatch == Init /\ [][NextMatch]_vars

SpecAnalyze == Init /\ [][NextAnalyze]_vars

SpecPipe == Init /\ [][NextPipe]_vars

SpecEmbed == Init /\ [][NextEmbed]_vars

SpecRerun == Init /\ [][NextRerun]_vars

SpecRegistry == Init /\ [][NextRegistry]_vars

SpecAudio == Init /\ [][NextAudio]_vars

SpecLife == Init /\ [][NextLife]_vars

SpecHttp == Init /\ [][NextHttp]_vars

SpecStat == Init /\ [][NextStat]_vars

\* Every task inside the semaphore finishes, and gather returns once all have.
FairAnalyze ==
    SpecAnalyze
    /\ WF_vars(\E k \in 1..Len(batch_articles) : EnterSemaphore(k))
    /\ WF_vars(\E k \in 1..Len(batch_articles), ok \in BOOLEAN : TaskDone(k, ok))
    /\ WF_vars(GatherReturns)


(***************************************************************************)
(*                               CLAIMS                                    *)
(***************************************************************************)

\* C1: for every task, at most one execution of its function is in progress
\* at any time, whatever the interleaving of launches by the scheduler loop
\* and manual run_task_now calls.
C1_NonOverlap ==
    \A t \in Tasks : Cardinality({c \in Callers : exec[t][c] = "running"}) <= 1

\* A manual execution of a task is in progress while the scheduler loop has
\* created an execution of the same task that has not had its turn yet.
C1_Race ==
    \E t \in Tasks, m \in Manual : exec[t][m] = "running" /\ exec[t][Loop] = "created"

\* C2: every stored article with is_duplicate = true has a non-null
\* duplicate_of that references a different stored article which is not
\* itself a duplicate.
C2_DuplicateOfCanonical ==
    \A i \in 1..Len(articles) :
        articles[i].is_duplicate =>
            /\ articles[i].duplicate_of # None
            /\ articles[i].duplicate_of # i
            /\ articles[i].duplicate_of \in 1..Len(articles)
            /\ ~articles[articles[i].duplicate_of].is_duplicate

\* The articles the last run handed to batch_create_articles, in the order
\* they were written, each with the path that wrote it.
Writes ==
    [k \in 1..Len(persisted.unique) |->
        [article |-> persisted.unique[k], fallback |-> persisted.fallback_unique]]
    \o
    [k \in 1..Len(persisted.duplicates) |->
        [article |-> persisted.duplicates[k], fallback |-> persisted.fallback_duplicates]]

LastForKey(k) ==
    \A j \in (k + 1)..Len(Writes) : ~SameKey(Writes[j].article, Writes[k].article)

Reflects(row, a) ==
    /\ row.url = a.url
    /\ row.title = a.title
    /\ row.content = a.content
    /\ row.is_duplicate = a.is_duplicate
    /\ row.duplicate_of = a.duplicate_of

OneRowPerKey ==
    \A i, j \in 1..Len(articles) : SameKey(articles[i], articles[j]) => i = j

\* C3: the store holds at most one row per (source, source_id) and, after
\* a run, the row of every article the run persisted carries that article's
\* fields: a re-ingested article updates its row in place.
C3_UpdatedInPlace ==
    /\ OneRowPerKey
    /\ \A k \in 1..Len(Writes) :
          LastForKey(k) =>
              \E i \in KeyRows(articles, Writes[k].article) :
                  Reflects(articles[i], Writes[k].article)

RECURSIVE SumGranted(_, _)
SumGranted(a, b) == IF a > b THEN 0 ELSE granted_at[a] + SumGranted(a + 1, b)

\* C4: over any window [a, b] the tokens granted to acquire and
\* wait_for_tokens callers never exceed burst_limit +
\* requests_per_second * (b - a).
C4_Conservation ==
    \A a \in 0..time : \A b \in a..time :
        SumGranted(a, b) <= BurstLimit + TokensPerUnit * (b - a)

\* The burst was used up at time 0, a caller of wait_for_tokens is asleep
\* and tokens have been granted again after a refill.
C4_RefilledAndGranted ==
    /\ granted_at[0] = BurstLimit
    /\ \E i \in 1..time : granted_at[i] > 0
    /\ \E w \in Waiters : waiter[w].pc = "sleeping"

\* C5: the breaker of a source opens exactly when the 5th consecutive
\* failure is recorded (a success resets the count to 0), and while it is
\* open no attempt through fetch_with_result invokes the upstream fetch().
C5_OpensAtFifthFailure ==
    /\ [](\A s \in Sources :
            /\ IsOpen(s) => cb_error_count[s] >= FailureThreshold
            /\ cb_error_count[s] >= FailureThreshold => circuit_breaker_open_until[s] # None)
    /\ [][\A s \in Sources :
            /\ (~IsOpen(s) /\ IsOpen(s)') =>
                  /\ fetch_pc[s] = "fetching"
                  /\ cb_error_count[s] = FailureThreshold - 1
                  /\ cb_error_count'[s] = FailureThreshold
            /\ (fetch_pc[s] = "fetching" /\ fetch_pc'[s] = "idle") =>
                  \/ cb_error_count'[s] = 0 /\ ~IsOpen(s)'
                  \/ /\ cb_error_count'[s] = cb_error_count[s] + 1
                     /\ IsOpen(s)' <=> cb_error_count'[s] = FailureThreshold
            /\ IsOpen(s) => ~(fetch_pc[s] = "idle" /\ fetch_pc'[s] = "fetching")]_vars

\* The breaker of a source is open and an attempt made while it was open
\* has fast-failed.
C5_OpenAndFastFailed ==
    \E s \in Sources : IsOpen(s) /\ cb_error_count[s] > FailureThreshold

\* C6: attempts inside the 5-minute window after the breaker opened
\* fast-fail, the first attempt made once 5 minutes have passed since it
\* opened reaches the upstream, and a success leaves the count at 0 and the
\* breaker closed.
C6_RecoveryAfterCooldown ==
    [][\A s \in Sources :
          /\ (opened_at[s] # None /\ utcnow < opened_at[s] + CooldownMinutes) =>
                ~(fetch_pc[s] = "idle" /\ fetch_pc'[s] = "fetching")
          /\ (fetch_pc[s] = "idle" /\ fetch_pc'[s] = "idle"
                /\ cb_error_count'[s] = cb_error_count[s] + 1) =>
                (opened_at[s] # None /\ utcnow < opened_at[s] + CooldownMinutes)
          /\ (fetch_pc[s] = "fetching" /\ cb_error_count'[s] = 0 /\ fetch_pc'[s] = "idle") =>
                ~IsOpen(s)']_vars

\* C7: a fetch made by an ingestion run does not contact a source whose
\* breaker is open, and a failed one is counted by the breaker of its source.
C7_IngestionBreakerProtected ==
    [][direct_fetch' # direct_fetch =>
          LET s == direct_fetch'.source IN
          /\ ~IsOpen(s)
          /\ ~direct_fetch'.ok => cb_error_count'[s] = cb_error_count[s] + 1]_vars

\* C8: an execution of fetch_articles in which the ingestion run failed as
\* a whole adds one to error_count and leaves run_count as it was.
C8_FailedRunCounted ==
    [][\A c \in Callers :
          (exec["fetch_articles"][c] = "running" /\ exec'["fetch_articles"][c] = "none"
              /\ bg_failed') =>
              /\ error_count'["fetch_articles"] = error_count["fetch_articles"] + 1
              /\ run_count'["fetch_articles"] = run_count["fetch_articles"]]_vars

\* C9: the scheduler loop is never still waiting for the execution of one
\* task, a poll interval or more after its last poll, while a different,
\* idle task has become due since that poll.
C9_NoBlocking ==
    ~(/\ loop_pc = "gather"
      /\ now >= loop_time + CheckInterval
      /\ \E t, u \in Tasks :
            /\ t # u
            /\ exec[t][Loop] = "running"
            /\ exec[u][Loop] = "none"
            /\ ~is_running[u]
            /\ next_run[u] > loop_time
            /\ now >= next_run[u])

\* C10: when an execution attempt of an interval task that invoked the
\* function ends, by return or by exception, last_run is the start time of
\* that attempt and next_run is that start time plus interval_minutes.
C10_NextRunFromStart ==
    [][\A t \in Tasks, c \in Callers :
          (exec[t][c] = "running" /\ exec'[t][c] = "none") =>
              /\ last_run'[t] = start_time[t][c]
              /\ next_run'[t] = start_time[t][c] + interval_minutes(t) * TicksPerMinute]_vars

\* An attempt that raised has ended some time after it started.
C10_SlowFailedRun ==
    \E t \in Tasks :
        /\ error_count[t] > 0
        /\ ~is_running[t]
        /\ last_run[t] # None
        /\ now > last_run[t]
        /\ next_run[t] = last_run[t] + interval_minutes(t) * TicksPerMinute

\* The earliest instant at or after current whose time of day is h:00.
NextOccurrence(h, current) ==
    CHOOSE t \in current..(current + SlotsPerDay) :
        /\ t % SlotsPerDay = h * SlotsPerHour
        /\ \A u \in current..(t - 1) : u % SlotsPerDay # h * SlotsPerHour

\* C11: whenever next_run of a daily task with hour H is computed (at
\* registration and at the end of every execution attempt), it is H:00 of
\* the current UTC date if that instant has not passed and H:00 of the
\* following date if it has.
C11_DailyNextRun ==
    [][(\/ daily_at_hour = None /\ daily_at_hour' # None
        \/ daily_is_running /\ ~daily_is_running') =>
          /\ daily_next_run' = NextOccurrence(daily_at_hour', wall_clock)
          /\ daily_next_run' % SlotsPerDay = daily_at_hour' * SlotsPerHour
          /\ daily_next_run' \div SlotsPerDay =
                IF wall_clock % SlotsPerDay <= daily_at_hour' * SlotsPerHour
                THEN wall_clock \div SlotsPerDay
                ELSE wall_clock \div SlotsPerDay + 1]_vars

\* A task with hour 17 was registered at 20:00 of day 0 and is scheduled
\* for 17:00 of day 1.
C11_RegisteredAfterHour ==
    /\ daily_at_hour = 17
    /\ daily_last_run = None
    /\ wall_clock = 20 * SlotsPerHour
    /\ daily_next_run = SlotsPerDay + 17 * SlotsPerHour

\* C12: every execution that invokes the task function adds one to exactly
\* one counter: run_count when the function returns (execute() returns True),
\* error_count when it raises (execute() returns False, run_count unchanged).
\* The exception ends inside execute(), which returns a value, and the
\* scheduler loop stays where it was, free to go on to its next poll.
C12_ExactlyOneCounter ==
    [][\A t \in Tasks :
         (is_running[t] /\ ~is_running'[t]) =>
             /\ last_execute' # << >>
             /\ last_execute'[1].invoked
             /\ last_execute'[1].value \in BOOLEAN
             /\ last_execute'[1].value = ~last_execute'[1].raised
             /\ IF last_execute'[1].raised
                THEN /\ error_count'[t] = error_count[t] + 1
                     /\ run_count'[t] = run_count[t]
                     /\ last_execute'[1].value = FALSE
                ELSE /\ run_count'[t] = run_count[t] + 1
                     /\ error_count'[t] = error_count[t]
                     /\ last_execute'[1].value = TRUE
             /\ loop_pc' = loop_pc
             /\ (\A c \in Callers : exec'[t][c] # "running")]_vars

\* A scheduled run of test_task raised, was counted as an error, and the loop
\* went on past its gather to the next sleep.
C12_RaisedAndLoopWentOn ==
    /\ last_execute # << >>
    /\ last_execute[1].raised
    /\ ~last_execute[1].manual
    /\ error_count["test_task"] = 1
    /\ run_count["test_task"] = 0
    /\ loop_pc = "sleep"
    /\ loop_time = MaxCallTime + CheckInterval

\* A call of execute() on task t gets its first turn in this step while t is
\* running: the loop's execution task leaves "created", or a manual trigger
\* of t returns with no execution of t ending.
CallWhileRunning(t) ==
    /\ is_running[t]
    /\ \/ exec[t][Loop] = "created" /\ exec'[t][Loop] # "created"
       \/ /\ last_execute' # last_execute
          /\ last_execute'[1].task = t
          /\ exec'[t] = exec[t]

\* C13: while is_running is true, should_run is False for every time, and a
\* call of execute() returns False without invoking the task function and
\* leaves run_count, error_count, last_run, next_run and is_running as they
\* were; the attempt is dropped: no execution of the task is left created
\* or started by it.
C13_ReentrancyGuard ==
    /\ [](\A t \in Tasks : is_running[t] =>
             \A current_time \in 0..MaxCallTime : ~ShouldRun(t, current_time))
    /\ [][\A t \in Tasks :
            CallWhileRunning(t) =>
                /\ last_execute'[1].task = t
                /\ ~last_execute'[1].invoked
                /\ last_execute'[1].value = FALSE
                /\ run_count'[t] = run_count[t]
                /\ error_count'[t] = error_count[t]
                /\ last_run'[t] = last_run[t]
                /\ next_run'[t] = next_run[t]
                /\ is_running'[t]
                /\ start_time'[t] = start_time[t]
                /\ \A c \in Callers :
                      exec'[t][c] \in {"created", "running"} => exec'[t][c] = exec[t][c]]_vars

\* test_task is running for the loop, past its due time, and a manual trigger
\* of it has just been turned away.
C13_TriggerTurnedAway ==
    /\ is_running["test_task"]
    /\ exec["test_task"][Loop] = "running"
    /\ now >= next_run["test_task"]
    /\ last_execute = <<ExecuteReturned("test_task", TRUE, "skipped")>>
    /\ run_count["test_task"] = 0
    /\ error_count["test_task"] = 0

\* C14: run_task_now on a registered task takes the path of a scheduled
\* launch.  When its execution ends, last_run is the start of the run, next_run
\* is one interval after that start, one of run_count and error_count has
\* grown by one according to the value returned, and is_running is cleared,
\* for a manual run as for one launched by the loop; and run_task_now on a
\* running task starts nothing and returns False.
C14_ManualRunSamePath ==
    [][\A t \in Tasks :
         /\ \A c \in Callers :
              (exec[t][c] = "running" /\ exec'[t][c] = "none") =>
                  /\ last_run'[t] = start_time[t][c]
                  /\ next_run'[t] = start_time[t][c] + interval_minutes(t) * TicksPerMinute
                  /\ run_count'[t] + error_count'[t] = run_count[t] + error_count[t] + 1
                  /\ last_execute'[1].manual = (c # Loop)
                  /\ last_execute'[1].value = (run_count'[t] = run_count[t] + 1)
                  /\ ~is_running'[t]
         /\ \A m \in Manual :
              (is_running[t] /\ exec[t][m] = "none") =>
                  /\ exec'[t][m] = "none"
                  /\ (last_execute' # last_execute /\ last_execute'[1].task = t
                         /\ last_execute'[1].manual /\ exec'[t] = exec[t]) =>
                        (~last_execute'[1].invoked /\ last_execute'[1].value = FALSE)]_vars

\* A manual run of test_task, started before the task was due, has failed and
\* been counted, and the task is rescheduled one interval after its start.
C14_ManualRunCounted ==
    /\ last_execute = <<ExecuteReturned("test_task", TRUE, "raised")>>
    /\ error_count["test_task"] = 1
    /\ run_count["test_task"] = 0
    /\ last_run["test_task"] = 0
    /\ next_run["test_task"] = TestIntervalMinutes * TicksPerMinute
    /\ now > 0

\* C15: a manual trigger reports "task not found" and "task found but its
\* execution failed" as two different outcomes: what a trigger of an
\* unregistered name gave back (run_task_now's value and the endpoint's HTTP
\* status) is never what a trigger whose execution raised gave back.
C15_FailureDistinctFromNotFound ==
    \A missing \in reported.not_found, failure \in reported.failed : missing # failure

\* Two articles the deduplication takes for the same story: the same url, or
\* the same title and content (similarity 1.0).
NearIdentical(a, b) ==
    \/ a.url = b.url
    \/ GenerateArticleEmbedding(a.title, a.content) = GenerateArticleEmbedding(b.title, b.content)

\* C16: first-seen-wins within a batch: for two near-identical articles of
\* different sources, A earlier and B later in the batch, if B is flagged as a
\* duplicate then its duplicate_of is the id of A (of the row holding A), and
\* A is not flagged as a duplicate of B.
C16_FirstSeenWins ==
    \A i, j \in 1..Len(dedup.batch) :
        (i < j /\ NearIdentical(dedup.batch[i], dedup.batch[j])
               /\ ~SameKey(dedup.batch[i], dedup.batch[j])) =>
            /\ dedup.calls[j].value # None =>
                  dedup.calls[j].value \in KeyRows(dedup.store, dedup.batch[i])
            /\ dedup.calls[i].value # None =>
                  dedup.calls[i].value \notin KeyRows(dedup.store, dedup.batch[j])

\* The collaborator that fails during the find_duplicates call of article k.
FailureOf(k) == IF dedup.failAt = k THEN dedup.failKind ELSE "none"

\* The non-duplicate rows of the table with the url of an article.
SameUrlRows(a) ==
    {i \in 1..Len(dedup.store) : dedup.store[i].url = a.url /\ ~dedup.store[i].is_duplicate}

\* C18: when the table holds a non-duplicate row with the url of the new
\* article, whatever its source and source_id, and the url query answers,
\* find_duplicates returns the id of such a row and stops there: the embedding
\* service is not called, the article gets no embedding and the similarity
\* index is not searched.
C18_UrlMatchShortCircuits ==
    \A k \in 1..Len(dedup.batch) :
        (SameUrlRows(dedup.batch[k]) # {} /\ FailureOf(k) # "url") =>
            /\ ~dedup.calls[k].raised
            /\ dedup.calls[k].value \in SameUrlRows(dedup.batch[k])
            /\ ~dedup.calls[k].embedded
            /\ ~dedup.calls[k].searched
            /\ dedup.calls[k].article.embedding = NoEmbedding

\* The table holds the rss article with url u1; the arxiv article with the
\* same url is found to be its duplicate by the url alone.
C18_SameUrlOtherSource ==
    /\ Len(dedup.store) = 1
    /\ dedup.store[1].source = "rss"
    /\ dedup.store[1].url = "u1"
    /\ Len(dedup.batch) = 1
    /\ dedup.batch[1].source = "arxiv"
    /\ dedup.batch[1].source_id # dedup.store[1].source_id
    /\ dedup.batch[1].url = "u1"
    /\ dedup.calls[1].value = 1
    /\ ~dedup.calls[1].embedded
    /\ ~dedup.calls[1].searched
    /\ dedup.duplicates[1].duplicate_of = 1

\* A collaborator failed during the find_duplicates call of article k: the
\* url query (always made), the embedding service or the similarity search
\* (when the call got that far).
Failed(k, kind) ==
    /\ FailureOf(k) = kind
    /\ kind = "embedding" => dedup.calls[k].embedded
    /\ kind = "similarity" => dedup.calls[k].searched

\* Article k came back in the unique list, not flagged.
ReturnedUnique(k) ==
    \E u \in 1..Len(dedup.unique) :
        /\ dedup.unique[u] = dedup.calls[k].article
        /\ ~dedup.unique[u].is_duplicate
        /\ dedup.unique[u].duplicate_of = None

\* The rows a similarity check of article a can name.
SimilarRows(a) ==
    {i \in 1..Len(dedup.store) :
        dedup.store[i].embedding = GenerateArticleEmbedding(a.title, a.content)}

TitleJaccardAbove80 ==
    LET a == Tokens(judged.article_title)
        m == Tokens(judged.match_title) IN
    a # {} /\ m # {} /\ 10 * Cardinality(a \cap m) > 8 * Cardinality(a \cup m)

\* The judged pair has the same calendar publication date.
SamePublicationDate ==
    judged.article_published_at \div HoursPerDay = judged.match_published_at \div HoursPerDay

\* C17: a similarity candidate is accepted as a duplicate if and only if its
\* similarity is above the hard threshold 0.95, or it is above the soft
\* threshold 0.85 and the publication dates are the same calendar day or the
\* stop-word-stripped title Jaccard similarity is above 0.8.  In particular
\* similarity 0.90 with the same date is accepted, and similarity 0.90 with
\* different dates and 30% title overlap is not.
C17_AcceptedIffThresholds ==
    judged.article_title # <<>> =>
        /\ judged.accepted <=>
              \/ judged.similarity > 95
              \/ judged.similarity > 85 /\ (SamePublicationDate \/ TitleJaccardAbove80)
        /\ (judged.similarity = 90 /\ SamePublicationDate) => judged.accepted
        /\ (judged.similarity = 90 /\ ~SamePublicationDate
               /\ CalculateTitleSimilarity(judged.article_title, judged.match_title) = 30)
              => ~judged.accepted

\* Similarity 0.90, published one hour apart on different days, titles with
\* five of six tokens in common: accepted on the title alone.
C17_AcceptedOnTitle ==
    /\ judged.similarity = 90
    /\ judged.article_published_at = HoursPerDay - 1
    /\ judged.match_published_at = HoursPerDay
    /\ ~SamePublicationDate
    /\ TitleJaccardAbove80
    /\ judged.article_title # judged.match_title
    /\ judged.accepted

\* The scoring of the article at position i succeeded.
Succeeded(i) == \E c \in 1..Len(completed) : completed[c].task = i /\ completed[c].ok

\* C20: analyze_articles_batch returns one entry per article, in the order
\* of the articles: entry i is the analysis of article i when its scoring
\* succeeded and None when it failed.  The end of one task, failed or not,
\* leaves the results of the other tasks as they were, and the call returns
\* whatever fails.
C20_OneEntryPerItemInOrder ==
    /\ [](batch_pc = "returned" =>
            /\ Len(final_results) = Len(batch_articles)
            /\ \A i \in 1..Len(batch_articles) :
                  final_results[i] = IF Succeeded(i) THEN Analysis(batch_articles[i])
                                     ELSE NoAnalysis)
    /\ [][\A i \in 1..Len(batch_articles) :
            task_pc'[i] = task_pc[i] => task_result'[i] = task_result[i]]_vars
    /\ (batch_pc = "gathering" ~> batch_pc = "returned")

\* Three articles; the second finished first and failed, the third finished
\* before the first; the list returned has the second entry None and the
\* analyses of the first and the third in their places.
C20_MiddleFailedOutOfOrder ==
    /\ batch_pc = "returned"
    /\ batch_articles = <<"t1", "t2", "t1">>
    /\ completed = <<[task |-> 2, ok |-> FALSE], [task |-> 3, ok |-> TRUE],
                     [task |-> 1, ok |-> TRUE]>>
    /\ final_results = <<Analysis("t1"), NoAnalysis, Analysis("t1")>>

\* C21: during analyze_articles_batch at most max_concurrent analyze_article
\* calls are in flight at any time, and every article is eventually
\* analysed: no task waits for the semaphore for ever.
C21_BoundedAndNoStarvation ==
    /\ [](Cardinality(Analyzing) <= MaxConcurrent)
    /\ \A k \in 1..MaxAnalyzeBatch :
          (k <= Len(task_pc) /\ task_pc[k] = "waiting")
              ~> (k <= Len(task_pc) /\ task_pc[k] = "done")

\* The semaphore is full and a task is waiting for a place in it.
C21_SemaphoreFull ==
    /\ batch_pc = "gathering"
    /\ Cardinality(Analyzing) = MaxConcurrent
    /\ \E k \in 1..Len(task_pc) : task_pc[k] = "waiting"

\* The scoring stage of the run has been done.
Analyzed == bg_pc \in {"storing", "done"} /\ all_articles # <<>>

\* The positions of the collected articles whose scoring succeeded with a
\* relevance score of at least min_score.
Kept == {k \in 1..Len(bg_scores) : bg_scores[k] # None /\ bg_scores[k] >= MinRelevanceScore}

\* The rows of the table written for the collected article at position k.
RowsOf(k) == {i \in 1..Len(bg_table) : SameKey(bg_table[i], all_articles[k])}

\* C22: analyze_and_update_articles returns, in input order, exactly the
\* articles whose scoring succeeded with relevance_score >= min_score, each
\* carrying its analysis; the others are dropped, and the run hands only the
\* returned articles to deduplication and to storage.
C22_ScoreAndFilter ==
    Analyzed =>
        /\ Len(analyzed_articles) = Cardinality(Kept)
        /\ \A k \in Kept :
              analyzed_articles[Cardinality({j \in Kept : j <= k})] =
                  [all_articles[k] EXCEPT !.relevance_score = bg_scores[k]]
        /\ bg_pc = "done" =>
              /\ dedup_input = analyzed_articles
              /\ Len(stored_input) = Len(analyzed_articles)
              /\ \A i \in 1..Len(stored_input) :
                    \E k \in Kept : SameKey(stored_input[i], all_articles[k])
              /\ \A k \in 1..Len(all_articles) : k \notin Kept => RowsOf(k) = {}
              /\ \A k \in Kept : RowsOf(k) # {}

\* Two articles were collected; the scoring of the first failed, the second
\* scored exactly min_score: only the second was returned and stored.
C22_FailedDroppedThresholdKept ==
    /\ bg_pc = "done"
    /\ Len(all_articles) = 2
    /\ bg_scores = <<None, MinRelevanceScore>>
    /\ Len(analyzed_articles) = 1
    /\ analyzed_articles[1].relevance_score = MinRelevanceScore
    /\ RowsOf(1) = {}
    /\ RowsOf(2) # {}

\* The articles of the fetches that returned, in the order of the sources.
RECURSIVE Collected(_)
Collected(fetches) ==
    IF fetches = <<>> THEN <<>>
    ELSE (IF Head(fetches).raised THEN <<>> ELSE Head(fetches).value)
         \o Collected(Tail(fetches))

\* C23: an exception raised by the fetch of one source skips that source
\* only: every source of the list is fetched, the articles of the sources
\* that returned are all collected, and those that pass the scoring are
\* deduplicated and stored in the same run.
C23_FailedSourceSkipped ==
    bg_pc \in {"analyzing", "storing", "done"} =>
        /\ Len(bg_fetches) = Len(bg_sources)
        /\ all_articles = Collected(bg_fetches)
        /\ (bg_pc = "done" /\ all_articles # <<>>) =>
              /\ Len(bg_scores) = Len(all_articles)
              /\ dedup_input = analyzed_articles
              /\ \A k \in Kept : RowsOf(k) # {}

\* The fetch of arxiv raised; the rss article fetched after it was scored,
\* deduplicated and stored.
C23_SecondSourceStored ==
    /\ bg_pc = "done"
    /\ bg_sources = <<"arxiv", "rss">>
    /\ bg_fetches[1].raised
    /\ ~bg_fetches[2].raised
    /\ Len(all_articles) = 1
    /\ all_articles[1].source = "rss"
    /\ dedup_input = analyzed_articles
    /\ RowsOf(1) # {}
\* C24: wait_for_tokens(n) eventually returns for every n >= 1, and the
\* step on which it returns is a granted acquire: n tokens were in the
\* bucket after the refill and exactly n were taken.
C24_WaitReturnsAfterTakingN ==
    /\ \A n \in 1..MaxWaitRequest :
         (waiter[1].pc = "sleeping" /\ waiter[1].n = n) ~> (waiter[1].pc = "idle")
    /\ [][\A n \in 1..MaxWaitRequest :
            (WaitForTokens(1, n) \/ (WaitRetry(1) /\ waiter[1].n = n))
              /\ waiter'[1].pc = "idle"
            => /\ AcquireResult(n).ok
               /\ tokens' = Min(BurstLimit, tokens + (time - last_update) * TokensPerUnit) - n]_vars

\* C24, the requests the bucket can hold: a call for at most burst_limit
\* tokens returns.
C24_WithinBurstReturns ==
    \A n \in 1..BurstLimit :
        (waiter[1].pc = "sleeping" /\ waiter[1].n = n) ~> (waiter[1].pc = "idle")

\* C24: a call for more tokens than the bucket holds is asleep.
C24_OverBurstAsleep ==
    waiter[1].pc = "sleeping" /\ waiter[1].n > BurstLimit

\* C25: acquire(n) refills the bucket to min(burst_limit, tokens + elapsed *
\* rate), then takes exactly n when that many are there and nothing
\* otherwise; the bucket stays within [0, burst_limit], and while no time
\* has passed on a fresh limiter what was granted and what is left add up
\* to burst_limit, so the burst is granted and the next request refused.
C25_RefillThenTakeOrRefuse ==
    /\ [](tokens \in 0..BurstLimit)
    /\ [](time = 0 => granted_at[0] + tokens = BurstLimit)
    /\ [][\A n \in Requests :
            Acquire(n) =>
              LET filled == Min(BurstLimit, tokens + (time - last_update) * TokensPerUnit) IN
              IF filled >= n
              THEN tokens' = filled - n /\ granted_at'[time] = granted_at[time] + n
              ELSE tokens' = filled /\ granted_at' = granted_at]_vars

\* C25: the whole burst of a fresh limiter was granted before any time
\* passed, and the bucket is empty.
C25_BurstExhaustedAtStart ==
    time = 0 /\ tokens = 0 /\ granted_at[0] = BurstLimit

\* C26: the cache is transparent: whatever was called before, a
\* generate_embedding(t) that returns, returns the vector the model
\* computes for t.
C26_CacheTransparent ==
    \A i \in 1..Len(emb_call) :
        emb_call[i].op = "generate_embedding" /\ ~emb_call[i].raised
        => emb_call[i].value[1] = ProviderEmbedding(emb_provider, emb_call[i].texts[1])

\* C26: the calls answered without the cache return the model's vector.
C26_MissesAreExact ==
    \A i \in 1..Len(emb_call) :
        emb_call[i].op = "generate_embedding" /\ ~emb_call[i].raised /\ ~emb_call[i].hit
        => emb_call[i].value[1] = ProviderEmbedding(emb_provider, emb_call[i].texts[1])

\* C27: a call of generate_embedding or generate_embeddings_batch that
\* returns, returns for every text an embedding computed by the model,
\* never a zero or empty vector, and a call that raises has made at most
\* max_retries attempts.
C27_NoSilentZeroVector ==
    \A i \in 1..Len(emb_call) :
        /\ emb_call[i].attempts <= max_retries
        /\ ~emb_call[i].raised =>
             \A k \in 1..Len(emb_call[i].value) : emb_call[i].value[k].kind = "embedding"

\* C27: generate_embedding alone never hands out a zero or empty vector.
C27_SingleNeverZero ==
    \A i \in 1..Len(emb_call) :
        emb_call[i].op = "generate_embedding" /\ ~emb_call[i].raised
        => emb_call[i].value[1].kind = "embedding"

\* C28: get_health_status is read-only: a call leaves the failure count
\* and the breaker deadline of the fetcher as they were.
C28_HealthStatusReadOnly ==
    [][\A s \in Sources :
         GetHealthStatus(s) =>
           /\ cb_error_count'[s] = cb_error_count[s]
           /\ circuit_breaker_open_until'[s] = circuit_breaker_open_until[s]]_vars

\* C28: while the deadline of the breaker has not passed, or no deadline is
\* set, get_health_status changes nothing.
C28_ReadOnlyBeforeDeadline ==
    [][\A s \in Sources :
         /\ GetHealthStatus(s)
         /\ (circuit_breaker_open_until[s] = None \/ utcnow < circuit_breaker_open_until[s])
         => UNCHANGED <<cb_error_count, circuit_breaker_open_until>>]_vars

\* The decision on the judged candidate under other thresholds.
JudgedAt(hard, soft) ==
    IsLikelyDuplicateAt(hard, soft, judged.similarity, SamePublicationDate,
                        CalculateTitleSimilarity(judged.article_title, judged.match_title))

\* C29: the decision is monotone in the thresholds: a candidate that is not
\* a duplicate stays not a duplicate under any higher hard threshold, and
\* a candidate that is a duplicate stays one under any lower soft
\* threshold.
C29_ThresholdMonotone ==
    judged.article_title # <<>> =>
        /\ judged.accepted = JudgedAt(HardThresholdPct, SimilarityThresholdPct)
        /\ \A hard \in MatchSimilarities, soft \in MatchSimilarities :
             /\ \A higher \in MatchSimilarities :
                  higher >= hard /\ ~JudgedAt(hard, soft) => ~JudgedAt(higher, soft)
             /\ \A lower \in MatchSimilarities :
                  lower <= soft /\ JudgedAt(hard, soft) => JudgedAt(hard, lower)

\* C29: a candidate at exactly the soft threshold, refused under the
\* configured thresholds and accepted under a lower soft threshold.
C29_SoftThresholdDecides ==
    /\ judged.article_title # <<>>
    /\ ~judged.accepted
    /\ judged.similarity = SimilarityThresholdPct
    /\ JudgedAt(HardThresholdPct, 80)

\* An article as it entered the call: without the embedding and the flags
\* the call may have set on it.
AsGiven(a) == [a EXCEPT !.embedding = NoEmbedding, !.is_duplicate = FALSE, !.duplicate_of = None]

\* The articles of list at the positions where side says which, in order.
Side(list, side, which) ==
    LET at == SelectSeq([i \in 1..Len(list) |-> i], LAMBDA i : side[i] = which) IN
    [j \in 1..Len(at) |-> list[at[j]]]

\* C30: process_articles_for_duplicates splits its input in two: every
\* article of the input is in exactly one of the lists, each list keeps the
\* order of the input, the duplicates carry is_duplicate = true and the id
\* of an original, the unique ones is_duplicate = false and no original.
C30_PartitionInOrder ==
    dedup.batch # <<>> =>
        /\ \E side \in [1..Len(dedup.batch) -> {"unique", "duplicate"}] :
              /\ Side(dedup.batch, side, "unique")
                    = [i \in 1..Len(dedup.unique) |-> AsGiven(dedup.unique[i])]
              /\ Side(dedup.batch, side, "duplicate")
                    = [i \in 1..Len(dedup.duplicates) |-> AsGiven(dedup.duplicates[i])]
        /\ \A i \in 1..Len(dedup.duplicates) :
              dedup.duplicates[i].is_duplicate /\ dedup.duplicates[i].duplicate_of # None
        /\ \A i \in 1..Len(dedup.unique) :
              ~dedup.unique[i].is_duplicate /\ dedup.unique[i].duplicate_of = None

\* C30: a call with two different articles of which the first is a
\* duplicate and the second is not.
C30_DuplicateThenUnique ==
    /\ Len(dedup.batch) = 2
    /\ dedup.batch[1] # dedup.batch[2]
    /\ Len(dedup.duplicates) = 1
    /\ Len(dedup.unique) = 1
    /\ AsGiven(dedup.duplicates[1]) = dedup.batch[1]

TableBeforeRun ==
    UpsertAll(<<>>, <<[FetchedArticle("rss", 0) EXCEPT !.url = FetchedArticle("arxiv", 1).url]>>)

\* C32: a run whose fetch stage collected nothing never enters the
\* analysis or the storing stage: it ends with no article scored, none
\* given to the deduplication, none stored and the table as it was.
C32_EmptyFetchIsNoOp ==
    all_articles = <<>> =>
        /\ bg_pc \in {"idle", "fetching", "done"}
        /\ bg_scores = <<>>
        /\ analyzed_articles = <<>>
        /\ dedup_input = <<>>
        /\ stored_input = <<>>
        /\ bg_table = TableBeforeRun

\* C32: a run over two sources has ended with nothing collected, one source
\* having raised and the other having returned no article.
C32_RunEndedEmpty ==
    /\ bg_pc = "done"
    /\ all_articles = <<>>
    /\ Len(bg_fetches) = 2
    /\ bg_fetches[1].raised
    /\ ~bg_fetches[2].raised

\* C33: no two registered tasks share a name; add_task with a registered
\* name raises and leaves the list unchanged; remove_task of a name that is
\* not registered returns False and leaves the list unchanged.
C33_NamesUnique ==
    /\ [](\A i, j \in 1..Len(tasks) : tasks[i].name = tasks[j].name => i = j)
    /\ [][\A name \in TaskNames :
            /\ \A minutes \in IntervalChoices, hour \in DailyHourChoices :
                 AddTask(name, minutes, hour) /\ Registered(name)
                 => tasks' = tasks /\ registry_call'.raised
            /\ RemoveTask(name) /\ ~Registered(name)
                 => tasks' = tasks /\ ~registry_call'.returned /\ ~registry_call'.raised]_vars

\* C33: add_task was refused for a name that is registered, with two other
\* tasks in the list.
C33_DuplicateRefused ==
    /\ registry_call.op = "add_task"
    /\ registry_call.raised
    /\ Registered(registry_call.name)
    /\ Len(tasks) = 3

\* C34: _process_task makes at most max_retries attempts for a task; the
\* task is COMPLETED after a successful attempt and FAILED after
\* max_retries failed ones; and no task is PROCESSING unless _process_task
\* is at work on it.
C34_AttemptsBoundedNeverStuck ==
    \A i \in 1..Len(audio_queue) :
        /\ audio_queue[i].attempts <= AudioMaxRetries
        /\ audio_queue[i].status = "completed" => audio_queue[i].attempts >= 1
        /\ audio_queue[i].status = "failed" => audio_queue[i].attempts = AudioMaxRetries
        /\ audio_queue[i].status = "processing" => current_task = i /\ attempt_pc # "none"

\* C34, without cancellation: the bound on the attempts and the final
\* status of a _process_task call that returned or raised an Exception.
C34_AttemptsBounded ==
    \A i \in 1..Len(audio_queue) :
        /\ audio_queue[i].attempts <= AudioMaxRetries
        /\ audio_queue[i].status = "completed" => audio_queue[i].attempts >= 1
        /\ audio_queue[i].status = "failed" => audio_queue[i].attempts = AudioMaxRetries

\* C35: whenever no execute() of the task is past its guard and inside
\* its try block, the task's is_running flag is false; and the flag is
\* true while one is.
C35_FlagClearedOnEveryExit ==
    task_is_running <=> \E e \in Executors : exec_pc[e] = "running"

\* C35 witness: an execution that had set the flag was cancelled through
\* stop(), and the flag is false.
C35_CancelledAndCleared ==
    last_exit = "cancelled" /\ ~task_is_running /\ \A e \in Executors : exec_pc[e] = "none"

\* C36: at most one scheduler loop that can still launch tasks exists at
\* a time: loops created by start(), not ended and not cancelled.
C36_AtMostOneLoop ==
    Cardinality({l \in Loops : Alive(l) /\ ~loop_cancel[l]}) <= 1

\* C36, second half: when is_running is false and no stop() is in
\* progress, no loop launches the task.
C36_NoLaunchAfterStop ==
    [][(~scheduler_is_running /\ \A s \in Stoppers : stop_await[s] = 0)
          => \A l \in Loops : exec_pc'[l] = "created" => exec_pc[l] = "created"]_vars

\* C37: get makes at most max_retries + 1 attempts, and when it has ended
\* it has returned a response or raised FetchError.
C37_ResponseOrFetchError ==
    /\ Len(http_outcomes) <= http_max_retries + 1
    /\ http_pc = "done" => http_result \in {"response", "FetchError"}

\* C37, the part that holds: the attempts are bounded, a returned response
\* is the response of the last attempt, and a call that ended otherwise
\* with FetchError had a failing last attempt.
C37_AttemptsBounded ==
    /\ Len(http_outcomes) <= http_max_retries + 1
    /\ http_result = "response" => http_outcomes[Len(http_outcomes)] = "success"
    /\ http_result = "FetchError" =>
          http_outcomes[Len(http_outcomes)] \in {"http_error", "network_error"}
    /\ http_result = "None" =>
          /\ Len(http_outcomes) = http_max_retries + 1
          /\ http_outcomes[Len(http_outcomes)] = "http_429"

\* C38: the success_rate of get_status lies between 0 and 100 and, after
\* at least one finished execution, is 100 * successes / executions.
C38_SuccessRateIsShareOfSuccesses ==
    LET num == status.success_rate[1]
        den == status.success_rate[2]
        n == Len(status.outcomes)
    IN status.asked =>
          /\ 0 <= num /\ num <= 100 * den
          /\ n > 0 => num * n = 100 * Successes(status.outcomes) * den

\* C38, what get_status reports: 100 * (successes - failures) / successes
\* when there was a success, 0 otherwise; never more than 100.
C38_RateFromCounters ==
    LET num == status.success_rate[1]
        den == status.success_rate[2]
        ok == Successes(status.outcomes)
        failed == Len(status.outcomes) - ok
    IN status.asked =>
          /\ num <= 100 * den
          /\ ok > 0 => num * ok = 100 * (ok - failed) * den
          /\ ok = 0 => num = 0

\* The UTC calendar day of an instant of the wall clock.
DayOf(instant) == instant \div SlotsPerDay

\* C39: the scheduler loop launches a daily task at most once per UTC
\* calendar day: when an execution is launched, the launch before it was
\* on an earlier day.  Stated for a previous launch that was not at the
\* very instant of the task's hour.
C39_AtMostOncePerDay ==
    [][(/\ ~daily_is_running /\ daily_is_running'
        /\ daily_last_run # None
        /\ daily_last_run # ReplaceHour(daily_last_run, daily_at_hour))
          => DayOf(daily_last_run) < DayOf(wall_clock)]_vars

\* C39, first half: when an execution ends, next_run is the next instant
\* of the task's hour: never before the time of the end, and strictly
\* later unless the execution ends at the very instant of the hour.
C39_NextRunAfterCompletion ==
    [][(daily_is_running /\ ~daily_is_running')
          => /\ daily_next_run' >= wall_clock
             /\ daily_next_run' - wall_clock < SlotsPerDay
             /\ daily_next_run' = ReplaceHour(daily_next_run', daily_at_hour)
             /\ wall_clock # ReplaceHour(wall_clock, daily_at_hour)
                   => daily_next_run' > wall_clock]_vars

====
